---- MODULE Spec2Model ----
(***************************************************************************)
(* Storefront client (cart, checkout, session, catalog, inline admin      *)
(* panel), the two standalone admin pages and the analytics module's       *)
(* revenue figure, as state machines over one set of variables: Spec and   *)
(* SpecSeq (cart and session), SpecAdmin (script start-up, admin sessions  *)
(* and product administration), SpecCatalog (catalog loads), SpecDebounce  *)
(* and SpecDebounceLive (debounced filter events), SpecSeed (seeding of    *)
(* the products table at page load), SpecRevenue (calculateRevenue).       *)
(* Every async handler of the storefront is a call record in `calls`;      *)
(* a handler runs atomically from one `await` to the next, so each         *)
(* handler has one action for the part up to its first await and one       *)
(* action per awaited backend response.  A backend request takes effect    *)
(* at the step that delivers its response.                                 *)
(***************************************************************************)
EXTENDS Integers, Sequences, FiniteSets, TLC

\* ------------------------------------------------------------------ bounds
MaxEvents == 4     \* handler invocations (user events) in one page session
MaxCalls == 2      \* handlers suspended at an await at the same time
MaxOrders == 2     \* orders in the table the analytics queries select from
MaxLoads == 2      \* loadProducts calls in one page session, or in flight

\* ------------------------------------------------------------ input sets
None == "none"
Users == {"u1", "u2"}
Products == {"A", "B"}
Sizes == {"M", "L"}
\* the (product, size) choices the product modal offers
SizeOptions == {<<"A", "M">>, <<"A", "L">>, <<"B", "M">>}
Prices == {1, 2}
\* the quantities chosen in the product modal (updateModalQuantity keeps >= 1)
Quantities == {1, 2}
EditableProducts == {"A"}
NoId == 0          \* `undefined` id of a line that has no backend row

\* rows of the user_roles table
UserRoles == [u \in Users |-> IF u = "u1" THEN "admin" ELSE "customer"]

VARIABLES
    currentUser,   \* let currentUser
    cart,          \* let cart: sequence of line objects
    localCart,     \* localStorage item 'cart' (serialized) or NoItem
    products,      \* let products: the page's product cache (id -> price)
    adminBtn,      \* #admin-btn is displayed
    redirect,      \* window.location.href assignment of checkout
    cartItems,     \* backend table cart_items
    nextId,        \* next identifier the backend assigns to a cart_items row
    dbProducts,    \* backend table products (id -> price)
    orders,        \* backend table orders
    calls,         \* handlers suspended at an await, oldest first
    events,        \* handler invocations so far
    last,          \* the handler step that produced this state, and its toast
    dashboard,     \* the admin dashboard is displayed
    session,       \* identity of the auth session the backend client holds
    page,          \* the script this page runs
    phase,         \* "loading" until the script has run, then "ready"/"blocked"
    config,        \* window.SUPABASE_CONFIG: which credentials are present
    client,        \* createClient has been called
    handlers,      \* the DOMContentLoaded listener has registered the handlers
    loginScreen,   \* #admin-login-screen is displayed (standalone admin pages)
    revenueOrders, \* the rows of table orders the analytics queries select from
    revenue,       \* calculateRevenue: where it is suspended, what it returned
    catalog,       \* the rows of table products the catalog selects from
    allProducts,   \* let allProducts: the rows of the last fetch
    grid,          \* #products-grid: the rows displayProducts rendered
    loads,         \* loadProducts(filters) calls suspended at their query
    form,          \* the values of the search, category, size and sort controls
    timer,         \* pending timeouts of the debounced applyFilters
    samples        \* batches of sample products inserted in table products

\* what only the analytics module touches
revenueVars == <<revenueOrders, revenue>>

\* what only the catalog view touches
catalogVars ==
    <<catalog, allProducts, grid, loads, form, timer, samples>>

viewVars == <<revenueVars, catalogVars>>

\* what the cart, checkout and session handlers never touch
pageVars == <<page, phase, config, client, handlers, loginScreen, viewVars>>

vars == <<currentUser, cart, localCart, products, adminBtn, redirect,
          cartItems, nextId, dbProducts, orders, calls, events, last,
          dashboard, session, pageVars>>

\* ----------------------------------------------------------- plain helpers
RECURSIVE SumSeq(_)
SumSeq(s) == IF s = <<>> THEN 0 ELSE Head(s) + SumSeq(Tail(s))

RemoveAt(s, i) == [k \in 1..(Len(s) - 1) |-> IF k < i THEN s[k] ELSE s[k + 1]]

\* Array.prototype.splice(index, 1): nothing happens past the end
Splice(s, i) == IF i \in 1..Len(s) THEN RemoveAt(s, i) ELSE s

FindLine_AnySize(c, p, s) ==
    IF \E k \in 1..Len(c) : c[k].pid = p
    THEN CHOOSE k \in 1..Len(c) :
            /\ c[k].pid = p
            /\ \A j \in 1..(k - 1) : c[j].pid # p
    ELSE 0

\* cart.find(item => item.product.id === product.id && item.size === size):
\* index of the first line of the pair, 0 when there is none
FindLine(c, p, s) ==
    IF \E k \in 1..Len(c) : c[k].pid = p /\ c[k].size = s
    THEN CHOOSE k \in 1..Len(c) :
            /\ c[k].pid = p /\ c[k].size = s
            /\ \A j \in 1..(k - 1) : ~(c[j].pid = p /\ c[j].size = s)
    ELSE 0

\* A suspended addToCart holds a reference to the line object it found
\* (existingItem).  `ref` of its call record is the index that object has in
\* cart now, 0 once the object is no longer in cart.
\* cart.splice(j, 1) removes the object at j and moves the later ones up
Shifted(cs, j) ==
    [k \in 1..Len(cs) |->
        [cs[k] EXCEPT !.ref = IF @ = j THEN 0 ELSE IF @ > j THEN @ - 1 ELSE @]]

\* cart = <new array>: no object of the old array is in cart
Detached(cs) == [k \in 1..Len(cs) |-> [cs[k] EXCEPT !.ref = 0]]

\* the filter controls as the page shows them at first: nothing typed or
\* selected
NoFilters == [search |-> <<>>, category |-> "", size |-> "", sort |-> ""]

\* localStorage.getItem('cart') === null
NoItem == [set |-> FALSE, items |-> <<>>]

\* window.location.href not assigned
NoRedirect == [set |-> FALSE, amount |-> 0, order_id |-> 0]

Line(id, p, price, q, s) ==
    [id |-> id, pid |-> p, price |-> price, qty |-> q, size |-> s]

Stringify_Empty(c) == [set |-> TRUE, items |-> <<>>]

\* JSON.stringify(cart): values only, the objects' identity is not stored
Stringify(c) ==
    [set |-> TRUE,
     items |-> [k \in 1..Len(c) |->
                  <<c[k].id, c[k].pid, c[k].price, c[k].qty, c[k].size>>]]

\* JSON.parse(...) || []: new objects
ParseCart(str) ==
    IF ~str.set THEN <<>>
    ELSE [k \in 1..Len(str.items) |->
            LET e == str.items[k] IN Line(e[1], e[2], e[3], e[4], e[5])]

BlankCall ==
    [fn |-> "", pc |-> "", via |-> "", user |-> None, pid |-> None,
     size |-> None, qty |-> 0, add |-> 0, index |-> 0, ref |-> 0, id |-> NoId,
     price |-> 0, items |-> <<>>, total |-> 0, orderId |-> 0]

\* a handler step: the handler the user triggered, how the step ended, and
\* the type of the toast the step showed ("" when it showed none)
Step(op, outcome, toastType) ==
    [op |-> op, outcome |-> outcome, toast |-> toastType]

\* `if (error) throw error` after an awaited backend call
Failed_Ignored(out) == FALSE
Failed(out) == out = "error"

Authorized_AnyRole(out, user) == ~Failed(out)

\* the role lookup returned a record without error and its role is 'admin'
\* (.single() reports a missing record as an error)
Authorized(out, user) == ~Failed(out) /\ UserRoles[user] = "admin"

PageAlive == ~redirect.set

\* a user event invokes a handler
Invoke == /\ PageAlive
          /\ page = "storefront"
          /\ handlers
          /\ events < MaxEvents
          /\ events' = events + 1
          /\ UNCHANGED pageVars
CanSuspend == Len(calls) < MaxCalls

\* ------------------------------------------------------------------- Init
\* The page after DOMContentLoaded finished with no stored session: the
\* product cache holds the fetched products, nothing is in flight.
\* calculateRevenue has not been called
RevenueIdle ==
    [pc |-> "idle", current |-> <<>>,
     result |-> [total |-> 0, lastMonth |-> 0, change |-> 0]]

Init ==
    /\ currentUser = None
    /\ cart = <<>>
    /\ localCart = NoItem
    /\ dbProducts = [p \in Products |-> 1]
    /\ products = [p \in Products |-> 1]
    /\ adminBtn = FALSE
    /\ redirect = NoRedirect
    /\ cartItems = {}
    /\ nextId = 1
    /\ orders = <<>>
    /\ calls = <<>>
    /\ events = 0
    /\ last = Step("init", "", "")
    /\ dashboard = FALSE
    /\ session = None
    /\ page = "storefront"
    /\ phase = "ready"
    /\ config = [url |-> TRUE, anonKey |-> TRUE]
    /\ client = TRUE
    /\ handlers = TRUE
    /\ loginScreen = FALSE
    /\ revenueOrders = <<>>
    /\ revenue = RevenueIdle
    /\ catalog = {}
    /\ allProducts = <<>>
    /\ grid = <<>>
    /\ loads = <<>>
    /\ form = NoFilters
    /\ timer = 0
    /\ samples = 0

\* ------------------------------------------------------------- addToCart
\* addToCart up to its first await (authenticated) or to its end (anonymous)
AddToCart(p, s, q) ==
    /\ Invoke
    /\ LET k == FindLine(cart, p, s) IN
       IF currentUser # None
       THEN /\ CanSuspend
            /\ IF k # 0
               THEN /\ calls' = Append(calls,
                          [BlankCall EXCEPT !.fn = "addToCart", !.pc = "update",
                              !.via = "addToCart", !.pid = p, !.size = s,
                              !.add = q, !.qty = cart[k].qty + q,
                              !.ref = k, !.id = cart[k].id])
               ELSE calls' = Append(calls,
                          [BlankCall EXCEPT !.fn = "addToCart", !.pc = "insert",
                              !.via = "addToCart", !.user = currentUser,
                              !.pid = p, !.size = s, !.add = q, !.qty = q])
            /\ last' = Step("addToCart", "sent", "")
            /\ UNCHANGED <<cart, localCart>>
       ELSE /\ IF k # 0
               THEN cart' = [cart EXCEPT ![k].qty = @ + q]
               ELSE cart' = Append(cart,
                          Line(NoId, p, products[p], q, s))
            /\ localCart' = Stringify(cart')
            /\ last' = Step("addToCart", "ok", "success")
            /\ UNCHANGED calls
    /\ UNCHANGED <<dashboard, session>>
    /\ UNCHANGED <<currentUser, products, adminBtn, redirect, cartItems,
                   nextId, dbProducts, orders>>

\* the cart_items row the backend stores for an insert
InsertedRow(c) ==
    [id |-> nextId, user |-> c.user, pid |-> c.pid, qty |-> c.qty,
     size |-> c.size]

InsertedLine_NoId(row) ==
    Line(NoId, row.pid, dbProducts[row.pid], row.qty, row.size)

\* the line pushed from the inserted row returned with its product:
\* {id: data[0].id, product: data[0].products, quantity, size}
InsertedLine(row) ==
    Line(row.id, row.pid, dbProducts[row.pid], row.qty, row.size)

\* addToCart resumed by the response of its update or insert
AddToCartResume(i, out) ==
    /\ PageAlive
    /\ UNCHANGED <<events, pageVars>>
    /\ i \in 1..Len(calls)
    /\ calls[i].fn = "addToCart"
    /\ LET c == calls[i]
           rest == RemoveAt(calls, i)
       IN
       /\ calls' = rest
       /\ IF Failed(out)
          THEN /\ last' = Step("addToCart", "error", "error")
               /\ UNCHANGED <<cart, cartItems, nextId>>
          ELSE IF c.pc = "update"
          THEN /\ cartItems' = {IF r.id = c.id THEN [r EXCEPT !.qty = c.qty]
                                ELSE r : r \in cartItems}
               /\ cart' = [k \in 1..Len(cart) |->
                             IF k = c.ref
                             THEN [cart[k] EXCEPT !.qty = @ + c.add]
                             ELSE cart[k]]
               /\ last' = Step("addToCart", "updated", "success")
               /\ UNCHANGED nextId
          ELSE /\ cartItems' = cartItems \cup {InsertedRow(c)}
               /\ nextId' = nextId + 1
               /\ cart' = Append(cart, InsertedLine(InsertedRow(c)))
               /\ last' = Step("addToCart", "inserted", "success")
    /\ UNCHANGED <<dashboard, session>>
    /\ UNCHANGED <<currentUser, localCart, products, adminBtn, redirect,
                   dbProducts, orders>>

\* -------------------------------------------------------- removeFromCart
\* removeFromCart up to its await (line with a backend row, authenticated)
\* or to its end; `via` is the handler the user triggered
RemoveFromCartBody(index, via) ==
    /\ Invoke
    /\ index \in 1..Len(cart)
    /\ IF currentUser # None /\ cart[index].id # NoId
       THEN /\ CanSuspend
            /\ calls' = Append(calls,
                  [BlankCall EXCEPT !.fn = "removeFromCart", !.pc = "delete",
                      !.via = via, !.id = cart[index].id, !.index = index])
            /\ UNCHANGED <<cart, localCart>>
       ELSE /\ cart' = Splice(cart, index)
            /\ localCart' = IF currentUser = None THEN Stringify(cart')
                            ELSE localCart
            /\ calls' = Shifted(calls, index)
    /\ UNCHANGED <<dashboard, session>>
    /\ UNCHANGED <<currentUser, products, adminBtn, redirect, cartItems,
                   nextId, dbProducts, orders>>

RemoveStep(index, via) ==
    Step(via, IF currentUser # None /\ cart[index].id # NoId
              THEN "removeSent" ELSE "removed", "")

RemoveFromCart(index) ==
    /\ RemoveFromCartBody(index, "removeFromCart")
    /\ last' = RemoveStep(index, "removeFromCart")

\* removeFromCart resumed by the response of its delete
RemoveFromCartResume(i, out) ==
    /\ PageAlive
    /\ UNCHANGED <<events, pageVars>>
    /\ i \in 1..Len(calls)
    /\ calls[i].fn = "removeFromCart"
    /\ LET c == calls[i] IN
       /\ IF Failed(out)
          THEN /\ calls' = RemoveAt(calls, i)
               /\ last' = Step(c.via, "removeError", "error")
               /\ UNCHANGED <<cart, localCart, cartItems>>
          ELSE /\ calls' = Shifted(RemoveAt(calls, i), c.index)
               /\ cartItems' = {r \in cartItems : r.id # c.id}
               /\ cart' = Splice(cart, c.index)
               /\ localCart' = IF currentUser = None THEN Stringify(cart')
                               ELSE localCart
               /\ last' = Step(c.via, "deleted", "")
    /\ UNCHANGED <<dashboard, session>>
    /\ UNCHANGED <<currentUser, products, adminBtn, redirect, nextId,
                   dbProducts, orders>>

\* ---------------------------------------------------- updateCartQuantity
\* the quantities the rendered - / + buttons of a line pass
NewQuantities(index) == {cart[index].qty - 1, cart[index].qty + 1}

DelegatesToRemove_Negative(newQuantity) == newQuantity < 0

DelegatesToRemove_Never(newQuantity) == FALSE

\* if (newQuantity < 1) { await removeFromCart(index); return; }
DelegatesToRemove(newQuantity) == newQuantity < 1

UpdateCartQuantity(index, newQuantity) ==
    /\ Invoke
    /\ index \in 1..Len(cart)
    /\ IF DelegatesToRemove(newQuantity)
       THEN /\ RemoveFromCartBody(index, "updateCartQuantity")
            /\ last' = RemoveStep(index, "updateCartQuantity")
       ELSE /\ IF currentUser # None /\ cart[index].id # NoId
               THEN /\ CanSuspend
                    /\ calls' = Append(calls,
                          [BlankCall EXCEPT !.fn = "updateCartQuantity",
                              !.pc = "update", !.via = "updateCartQuantity",
                              !.id = cart[index].id, !.index = index,
                              !.qty = newQuantity])
                    /\ last' = Step("updateCartQuantity", "sent", "")
                    /\ UNCHANGED <<cart, localCart>>
               ELSE /\ cart' = [cart EXCEPT ![index].qty = newQuantity]
                    /\ localCart' = IF currentUser = None
                                    THEN Stringify(cart') ELSE localCart
                    /\ last' = Step("updateCartQuantity", "ok", "")
                    /\ UNCHANGED calls
            /\ UNCHANGED <<currentUser, products, adminBtn, redirect,
                           cartItems, nextId, dbProducts, orders>>
            /\ UNCHANGED <<dashboard, session>>

\* updateCartQuantity resumed by the response of its update; cart[index] of
\* a line that is gone raises a TypeError outside the try block
UpdateCartQuantityResume(i, out) ==
    /\ PageAlive
    /\ UNCHANGED <<events, pageVars>>
    /\ i \in 1..Len(calls)
    /\ calls[i].fn = "updateCartQuantity"
    /\ LET c == calls[i] IN
       /\ calls' = RemoveAt(calls, i)
       /\ IF Failed(out)
          THEN /\ last' = Step("updateCartQuantity", "error", "error")
               /\ UNCHANGED <<cart, localCart, cartItems>>
          ELSE /\ cartItems' = {IF r.id = c.id THEN [r EXCEPT !.qty = c.qty]
                                ELSE r : r \in cartItems}
               /\ IF c.index \in 1..Len(cart)
                  THEN /\ cart' = [cart EXCEPT ![c.index].qty = c.qty]
                       /\ localCart' = IF currentUser = None
                                       THEN Stringify(cart') ELSE localCart
                       /\ last' = Step("updateCartQuantity", "updated", "")
                  ELSE /\ last' = Step("updateCartQuantity", "TypeError", "")
                       /\ UNCHANGED <<cart, localCart>>
    /\ UNCHANGED <<dashboard, session>>
    /\ UNCHANGED <<currentUser, products, adminBtn, redirect, nextId,
                   dbProducts, orders>>

\* ------------------------------------------------------- processCheckout
CartTotal_LivePrice(c) ==
    SumSeq([k \in 1..Len(c) |-> dbProducts[c[k].pid] * c[k].qty])

\* cart.reduce((sum, item) => sum + item.product.price * item.quantity, 0)
CartTotal(c) == SumSeq([k \in 1..Len(c) |-> c[k].price * c[k].qty])

\* cart.map(item => ({product_id, name, quantity, size, price, image_url}))
OrderItems(c) ==
    [k \in 1..Len(c) |->
        [pid |-> c[k].pid, qty |-> c[k].qty, size |-> c[k].size,
         price |-> c[k].price]]

\* cart = []; localStorage.removeItem('cart'); window.location.href = ...
FinishCheckout(c, orderId) ==
    /\ cart' = <<>>
    /\ localCart' = NoItem
    /\ redirect' = [set |-> TRUE, amount |-> c.total, order_id |-> orderId]

CheckoutRejection_GuestAllowed ==
    IF cart = <<>> THEN "empty" ELSE ""

\* the two early returns of processCheckout, "" when it goes on
CheckoutRejection ==
    IF cart = <<>> THEN "empty"
    ELSE IF currentUser = None THEN "nologin"
    ELSE ""

\* processCheckout up to the await of the order insert
ProcessCheckout ==
    /\ Invoke
    /\ IF CheckoutRejection # ""
       THEN /\ last' = Step("processCheckout", CheckoutRejection, "error")
            /\ UNCHANGED calls
       ELSE /\ CanSuspend
            /\ calls' = Append(calls,
                  [BlankCall EXCEPT !.fn = "processCheckout", !.pc = "insert",
                      !.via = "processCheckout", !.user = currentUser,
                      !.items = OrderItems(cart), !.total = CartTotal(cart)])
            /\ last' = Step("processCheckout", "sent", "")
    /\ UNCHANGED <<dashboard, session>>
    /\ UNCHANGED <<currentUser, cart, localCart, products, adminBtn, redirect,
                   cartItems, nextId, dbProducts, orders>>

\* processCheckout resumed by the response of the order insert
ProcessCheckoutInserted(i, out) ==
    /\ PageAlive
    /\ UNCHANGED <<events, pageVars>>
    /\ i \in 1..Len(calls)
    /\ calls[i].fn = "processCheckout"
    /\ calls[i].pc = "insert"
    /\ LET c == calls[i]
           orderId == Len(orders) + 1
       IN
       IF Failed(out)
       THEN /\ calls' = RemoveAt(calls, i)
            /\ last' = Step("processCheckout", "error", "error")
            /\ UNCHANGED <<cart, localCart, redirect, orders>>
       ELSE /\ orders' = Append(orders,
                  [id |-> orderId, user |-> c.user, items |-> c.items,
                   total |-> c.total, status |-> "pending"])
            /\ IF currentUser # None
               THEN /\ calls' = [calls EXCEPT ![i] =
                          [c EXCEPT !.pc = "clear", !.user = currentUser,
                                    !.orderId = orderId]]
                    /\ last' = Step("processCheckout", "inserted", "")
                    /\ UNCHANGED <<cart, localCart, redirect>>
               ELSE /\ calls' = RemoveAt(calls, i)
                    /\ FinishCheckout(c, orderId)
                    /\ last' = Step("processCheckout", "redirected", "")
    /\ UNCHANGED <<dashboard, session>>
    /\ UNCHANGED <<currentUser, products, adminBtn, cartItems, nextId,
                   dbProducts>>

\* processCheckout resumed by the outcome of the cart_items delete, whose
\* returned error is not read; a rejected await lands in the catch block
ProcessCheckoutCleared(i, out) ==
    /\ PageAlive
    /\ UNCHANGED <<events, pageVars>>
    /\ i \in 1..Len(calls)
    /\ calls[i].fn = "processCheckout"
    /\ calls[i].pc = "clear"
    /\ LET c == calls[i] IN
       /\ calls' = RemoveAt(calls, i)
       /\ cartItems' = IF out = "ok"
                       THEN {r \in cartItems : r.user # c.user}
                       ELSE cartItems
       /\ IF out = "throw"
          THEN /\ last' = Step("processCheckout", "thrown", "error")
               /\ UNCHANGED <<cart, localCart, redirect>>
          ELSE /\ FinishCheckout(c, c.orderId)
               /\ last' = Step("processCheckout", "redirected", "")
    /\ UNCHANGED <<dashboard, session>>
    /\ UNCHANGED <<currentUser, products, adminBtn, nextId, dbProducts, orders>>

\* ------------------------------------------------------ login and logout
\* rows of one identity in the order the select returns them, as lines
RECURSIVE RowsToLines(_)
RowsToLines(rows) ==
    IF rows = {} THEN <<>>
    ELSE LET r == CHOOSE x \in rows : \A y \in rows : x.id <= y.id IN
         <<Line(r.id, r.pid, dbProducts[r.pid], r.qty, r.size)>>
         \o RowsToLines(rows \ {r})

\* loadCart: the value it assigns to cart; the authenticated branch is the
\* value assigned when the select returned without error
LoadCart(user) ==
    IF user = None
    THEN ParseCart(localCart)
    ELSE RowsToLines({r \in cartItems : r.user = user})

\* the login form is reachable through the account button while signed out
HandleLogin ==
    /\ Invoke
    /\ currentUser = None
    /\ CanSuspend
    /\ calls' = Append(calls,
          [BlankCall EXCEPT !.fn = "handleLogin", !.pc = "signIn",
                            !.via = "handleLogin"])
    /\ last' = Step("handleLogin", "sent", "")
    /\ UNCHANGED <<dashboard, session>>
    /\ UNCHANGED <<currentUser, cart, localCart, products, adminBtn, redirect,
                   cartItems, nextId, dbProducts, orders>>

\* handleLogin resumed by signInWithPassword: who = None is a returned error
HandleLoginSignedIn(i, who) ==
    /\ PageAlive
    /\ UNCHANGED <<events, pageVars>>
    /\ i \in 1..Len(calls)
    /\ calls[i].fn = "handleLogin"
    /\ calls[i].pc = "signIn"
    /\ IF who = None
       THEN /\ calls' = RemoveAt(calls, i)
            /\ last' = Step("handleLogin", "error", "error")
            /\ UNCHANGED <<currentUser, session>>
       ELSE /\ currentUser' = who
            /\ calls' = [calls EXCEPT ![i] =
                  [@ EXCEPT !.pc = "loadCart", !.user = who]]
            /\ last' = Step("handleLogin", "signedIn", "")
            /\ session' = who
    /\ UNCHANGED dashboard
    /\ UNCHANGED <<cart, localCart, products, adminBtn, redirect, cartItems,
                   nextId, dbProducts, orders>>

\* handleLogin resumed by loadCart's select, then checkAdminStatus up to its
\* await (or its early return, which ends handleLogin)
HandleLoginCartLoaded(i, out) ==
    /\ PageAlive
    /\ UNCHANGED <<events, pageVars>>
    /\ i \in 1..Len(calls)
    /\ calls[i].fn = "handleLogin"
    /\ calls[i].pc = "loadCart"
    /\ LET c == calls[i]
           cs == IF out = "ok" THEN Detached(calls) ELSE calls
       IN
       /\ cart' = IF out = "ok" THEN LoadCart(c.user) ELSE cart
       /\ IF currentUser = None
          THEN /\ calls' = RemoveAt(cs, i)
               /\ last' = Step("handleLogin", "welcome", "success")
          ELSE /\ calls' = [cs EXCEPT ![i] =
                     [c EXCEPT !.pc = "role", !.user = currentUser]]
               /\ last' = Step("handleLogin", "cartLoaded", "")
    /\ UNCHANGED <<dashboard, session>>
    /\ UNCHANGED <<currentUser, localCart, products, adminBtn, redirect,
                   cartItems, nextId, dbProducts, orders>>

\* handleLogin resumed by checkAdminStatus's role lookup, to its end
HandleLoginRoleChecked(i, out) ==
    /\ PageAlive
    /\ UNCHANGED <<events, pageVars>>
    /\ i \in 1..Len(calls)
    /\ calls[i].fn = "handleLogin"
    /\ calls[i].pc = "role"
    /\ calls' = RemoveAt(calls, i)
    /\ adminBtn' = IF Authorized(out, calls[i].user) THEN TRUE ELSE adminBtn
    /\ last' = Step("handleLogin", "welcome", "success")
    /\ UNCHANGED <<dashboard, session>>
    /\ UNCHANGED <<currentUser, cart, localCart, products, redirect, cartItems,
                   nextId, dbProducts, orders>>

\* the account button offers logout while signed in
HandleLogout ==
    /\ Invoke
    /\ currentUser # None
    /\ CanSuspend
    /\ calls' = Append(calls,
          [BlankCall EXCEPT !.fn = "handleLogout", !.pc = "signOut",
                            !.via = "handleLogout"])
    /\ last' = Step("handleLogout", "sent", "")
    /\ UNCHANGED <<dashboard, session>>
    /\ UNCHANGED <<currentUser, cart, localCart, products, adminBtn, redirect,
                   cartItems, nextId, dbProducts, orders>>

DashboardAfterLogout_Kept == dashboard

\* adminDashboard.style.display = 'none' of handleLogout
DashboardAfterLogout == FALSE

\* handleLogout resumed by signOut
HandleLogoutSignedOut(i, out) ==
    /\ PageAlive
    /\ UNCHANGED <<events, pageVars>>
    /\ i \in 1..Len(calls)
    /\ calls[i].fn = "handleLogout"
    /\ IF Failed(out)
       THEN /\ calls' = RemoveAt(calls, i)
            /\ last' = Step("handleLogout", "error", "error")
            /\ UNCHANGED <<currentUser, cart, adminBtn, dashboard, session>>
       ELSE /\ calls' = Detached(RemoveAt(calls, i))
            /\ session' = None
            /\ currentUser' = None
            /\ cart' = <<>>
            /\ adminBtn' = FALSE
            /\ dashboard' = DashboardAfterLogout
            /\ last' = Step("handleLogout", "loggedOut", "success")
    /\ UNCHANGED <<localCart, products, redirect, cartItems, nextId,
                   dbProducts, orders>>

\* ------------------------------------------------- inline admin panel
\* a click on #admin-btn opens the admin dashboard, or closes it when it is
\* open (loadAdminDashboard, started on opening, only renders the admin
\* tables); it is no backend event and is not counted in `events`
ToggleAdminDashboard ==
    /\ PageAlive
    /\ handlers
    /\ page = "storefront"
    /\ adminBtn
    /\ dashboard' = ~dashboard
    /\ last' = Step("adminBtn", IF dashboard THEN "closed" ELSE "opened", "")
    /\ UNCHANGED <<currentUser, cart, localCart, products, adminBtn, redirect,
                   cartItems, nextId, dbProducts, orders, calls, events,
                   session, pageVars>>

\* ------------------------------------------------------ saveAdminProduct
\* identifiers the backend gives to inserted products
NewProductIds == {"N1", "N2", "N3", "N4", "N5", "N6"}
FreshId == CHOOSE n \in NewProductIds \ DOMAIN dbProducts : TRUE

\* how the image of the product form was given
Images == {"url", "file", "none"}

SaveRoute_AlwaysInsert(id) == "insert"

\* if (productData.id) update(...).eq('id', id) else insert(...);
\* the id is None when the form's product-id field is empty
SaveRoute(id) == IF id # None THEN "update" ELSE "insert"

\* the products table after the write of call c has taken effect
ProductsAfterWrite(c) ==
    IF c.pc = "update"
    THEN [q \in DOMAIN dbProducts |->
            IF q = c.pid THEN c.price ELSE dbProducts[q]]
    ELSE [q \in DOMAIN dbProducts \cup {FreshId} |->
            IF q = FreshId THEN c.price ELSE dbProducts[q]]

\* the products table after delete().eq('id', pid)
ProductsAfterDelete(pid) ==
    [q \in DOMAIN dbProducts \ {pid} |-> dbProducts[q]]

\* the value of the form's image field: empty unless a URL was entered
ImageUrl(image) == IF image = "url" THEN "url" ELSE None

UploadedUrl_Always(out) == "publicUrl"

\* uploadImageToSupabase: the public URL, null when the upload failed
UploadedUrl(out) == IF Failed(out) THEN None ELSE "publicUrl"

\* the product form of the inline admin panel is submitted, for an existing
\* product (p, the product-id field) or a new one (p = None); the form opens
\* from the admin dashboard.  Up to the await of the upload when a file was
\* chosen, else up to the await of saveAdminProduct's write.
SaveAdminProduct(p, price, image) ==
    /\ Invoke
    /\ dashboard
    /\ IF image = "file"
       THEN /\ CanSuspend
            /\ calls' = Append(calls,
                  [BlankCall EXCEPT !.fn = "saveAdminProduct",
                      !.pc = "upload", !.via = "saveAdminProduct",
                      !.pid = p, !.price = price])
            /\ last' = Step("saveAdminProduct", "uploading", "info")
       ELSE IF ImageUrl(image) = None
       THEN /\ last' = Step("saveAdminProduct", "noImage", "error")
            /\ UNCHANGED calls
       ELSE /\ CanSuspend
            /\ calls' = Append(calls,
                  [BlankCall EXCEPT !.fn = "saveAdminProduct",
                      !.pc = SaveRoute(p), !.via = "saveAdminProduct",
                      !.pid = p, !.price = price])
            /\ last' = Step("saveAdminProduct", "sent", "")
    /\ UNCHANGED <<dashboard, session>>
    /\ UNCHANGED <<currentUser, cart, localCart, products, adminBtn, redirect,
                   cartItems, nextId, dbProducts, orders>>

\* the submit handler resumed by the upload, then saveAdminProduct up to the
\* await of its write
ProductFormUploaded(i, out) ==
    /\ PageAlive
    /\ UNCHANGED <<events, pageVars>>
    /\ i \in 1..Len(calls)
    /\ calls[i].fn = "saveAdminProduct"
    /\ calls[i].pc = "upload"
    /\ IF UploadedUrl(out) = None
       THEN /\ calls' = RemoveAt(calls, i)
            /\ last' = Step("saveAdminProduct", "uploadFailed", "error")
       ELSE /\ calls' = [calls EXCEPT ![i] =
                  [@ EXCEPT !.pc = SaveRoute(calls[i].pid)]]
            /\ last' = Step("saveAdminProduct", "sent", "")
    /\ UNCHANGED <<dashboard, session>>
    /\ UNCHANGED <<currentUser, cart, localCart, products, adminBtn, redirect,
                   cartItems, nextId, dbProducts, orders>>

\* saveAdminProduct resumed by the products update or insert, then
\* loadProducts up to its await
SaveAdminProductUpdated(i, out) ==
    /\ PageAlive
    /\ UNCHANGED <<events, pageVars>>
    /\ i \in 1..Len(calls)
    /\ calls[i].fn = "saveAdminProduct"
    /\ calls[i].pc \in {"update", "insert"}
    /\ IF Failed(out)
       THEN /\ calls' = RemoveAt(calls, i)
            /\ last' = Step("saveAdminProduct", "error", "error")
            /\ UNCHANGED dbProducts
       ELSE /\ dbProducts' = ProductsAfterWrite(calls[i])
            /\ calls' = [calls EXCEPT ![i] = [@ EXCEPT !.pc = "loadProducts"]]
            /\ last' = Step("saveAdminProduct",
                            IF calls[i].pc = "update" THEN "updated"
                            ELSE "created", "success")
    /\ UNCHANGED <<dashboard, session>>
    /\ UNCHANGED <<currentUser, cart, localCart, products, adminBtn, redirect,
                   cartItems, nextId, orders>>

\* saveAdminProduct resumed by loadProducts' select; loadAdminProducts that
\* follows only renders the admin table
SaveAdminProductReloaded(i, out) ==
    /\ PageAlive
    /\ UNCHANGED <<events, pageVars>>
    /\ i \in 1..Len(calls)
    /\ calls[i].fn = "saveAdminProduct"
    /\ calls[i].pc = "loadProducts"
    /\ calls' = RemoveAt(calls, i)
    /\ IF Failed(out)
       THEN /\ last' = Step("saveAdminProduct", "loadError", "error")
            /\ UNCHANGED products
       ELSE /\ products' = dbProducts
            /\ last' = Step("saveAdminProduct", "reloaded", "")
    /\ UNCHANGED <<dashboard, session>>
    /\ UNCHANGED <<currentUser, cart, localCart, adminBtn, redirect, cartItems,
                   nextId, dbProducts, orders>>

\* --------------------------------------------------------- deleteProduct
DeleteProceeds_Always(answer) == TRUE

\* if (!confirm('Are you sure you want to delete this product?')) return;
DeleteProceeds(answer) == answer

\* deleteProduct of the inline admin panel, up to the await of its delete;
\* answer is what the user answers to confirm()
DeleteProduct(p, answer) ==
    /\ Invoke
    /\ dashboard
    /\ p \in DOMAIN dbProducts
    /\ IF DeleteProceeds(answer)
       THEN /\ CanSuspend
            /\ calls' = Append(calls,
                  [BlankCall EXCEPT !.fn = "deleteProduct", !.pc = "delete",
                                    !.via = "deleteProduct", !.pid = p])
            /\ last' = Step("deleteProduct", "sent", "")
       ELSE /\ last' = Step("deleteProduct", "declined", "")
            /\ UNCHANGED calls
    /\ UNCHANGED <<dashboard, session>>
    /\ UNCHANGED <<currentUser, cart, localCart, products, adminBtn, redirect,
                   cartItems, nextId, dbProducts, orders>>

\* deleteProduct resumed by the products delete, then loadProducts up to
\* its await
DeleteProductDeleted(i, out) ==
    /\ PageAlive
    /\ UNCHANGED <<events, pageVars>>
    /\ i \in 1..Len(calls)
    /\ calls[i].fn = "deleteProduct"
    /\ calls[i].pc = "delete"
    /\ IF Failed(out)
       THEN /\ calls' = RemoveAt(calls, i)
            /\ last' = Step("deleteProduct", "error", "error")
            /\ UNCHANGED dbProducts
       ELSE /\ dbProducts' = ProductsAfterDelete(calls[i].pid)
            /\ calls' = [calls EXCEPT ![i] = [@ EXCEPT !.pc = "loadProducts"]]
            /\ last' = Step("deleteProduct", "deleted", "success")
    /\ UNCHANGED <<dashboard, session>>
    /\ UNCHANGED <<currentUser, cart, localCart, products, adminBtn, redirect,
                   cartItems, nextId, orders>>

\* deleteProduct resumed by loadProducts' select; loadAdminProducts that
\* follows only renders the admin table
DeleteProductReloaded(i, out) ==
    /\ PageAlive
    /\ UNCHANGED <<events, pageVars>>
    /\ i \in 1..Len(calls)
    /\ calls[i].fn = "deleteProduct"
    /\ calls[i].pc = "loadProducts"
    /\ calls' = RemoveAt(calls, i)
    /\ IF Failed(out)
       THEN /\ last' = Step("deleteProduct", "loadError", "error")
            /\ UNCHANGED products
       ELSE /\ products' = dbProducts
            /\ last' = Step("deleteProduct", "reloaded", "")
    /\ UNCHANGED <<dashboard, session>>
    /\ UNCHANGED <<currentUser, cart, localCart, adminBtn, redirect, cartItems,
                   nextId, dbProducts, orders>>

\* ------------------------------------------------------------------ Next
Outcomes == {"ok", "error"}
Slots == 1..MaxCalls

\* a user event invokes a handler
Invocation ==
    \/ \E o \in SizeOptions, q \in Quantities : AddToCart(o[1], o[2], q)
    \/ \E k \in 1..Len(cart) : RemoveFromCart(k)
    \/ \E k \in 1..Len(cart) : \E n \in NewQuantities(k) :
          UpdateCartQuantity(k, n)
    \/ ProcessCheckout
    \/ HandleLogin
    \/ HandleLogout
    \/ ToggleAdminDashboard
    \/ \E p \in EditableProducts, price \in Prices :
          SaveAdminProduct(p, price, "url")

\* a backend response resumes a suspended handler
Response ==
    \/ \E i \in Slots, out \in Outcomes : AddToCartResume(i, out)
    \/ \E i \in Slots, out \in Outcomes : RemoveFromCartResume(i, out)
    \/ \E i \in Slots, out \in Outcomes : UpdateCartQuantityResume(i, out)
    \/ \E i \in Slots, out \in Outcomes : ProcessCheckoutInserted(i, out)
    \/ \E i \in Slots, out \in Outcomes \cup {"throw"} :
          ProcessCheckoutCleared(i, out)
    \/ \E i \in Slots, who \in Users \cup {None} : HandleLoginSignedIn(i, who)
    \/ \E i \in Slots, out \in Outcomes : HandleLoginCartLoaded(i, out)
    \/ \E i \in Slots, out \in Outcomes : HandleLoginRoleChecked(i, out)
    \/ \E i \in Slots, out \in Outcomes : HandleLogoutSignedOut(i, out)
    \/ \E i \in Slots, out \in Outcomes : SaveAdminProductUpdated(i, out)
    \/ \E i \in Slots, out \in Outcomes : SaveAdminProductReloaded(i, out)

Next == Invocation \/ Response

Spec == Init /\ [][Next]_vars

\* Handlers invoked one after the other: the user triggers the next event
\* only when no handler is suspended.
Idle == calls = <<>>

NextSeq ==
    \/ \E o \in SizeOptions, q \in Quantities :
          Idle /\ AddToCart(o[1], o[2], q)
    \/ \E k \in 1..Len(cart) : Idle /\ RemoveFromCart(k)
    \/ \E k \in 1..Len(cart) : \E n \in NewQuantities(k) :
          Idle /\ UpdateCartQuantity(k, n)
    \/ Idle /\ ProcessCheckout
    \/ Idle /\ HandleLogin
    \/ Idle /\ HandleLogout
    \/ Idle /\ ToggleAdminDashboard
    \/ \E p \in EditableProducts, price \in Prices :
          Idle /\ SaveAdminProduct(p, price, "url")
    \/ Response

SpecSeq == Init /\ [][NextSeq]_vars

\* =================================================== script initialization
Pages == {"storefront", "admin.js", "part_001"}
Configs == [url : BOOLEAN, anonKey : BOOLEAN]

\* what only the storefront's cart and session handlers touch
storeVars ==
    <<cart, localCart, products, adminBtn, redirect, cartItems, nextId>>
bootVars == <<page, phase, config, client, handlers, viewVars>>

ConfigMissing_UrlOnly == ~config.url

\* if (!SUPABASE_URL || !SUPABASE_ANON_KEY)
ConfigMissing == ~config.url \/ ~config.anonKey

\* checkAuth() as the DOMContentLoaded listener of a standalone admin page
\* starts it, up to its await of getSession
CheckAuthCall ==
    [BlankCall EXCEPT !.fn = "checkAuth", !.pc = "getSession",
                      !.via = "checkAuth"]

\* The script runs.  Without credentials it returns (storefront, admin.js)
\* or throws (part_001) before createClient and before the DOMContentLoaded
\* listener is added; otherwise the client is created and the listener
\* registers the handlers (the storefront's start-up fetches are not
\* modelled; a standalone admin page starts checkAuth).
LoadScript ==
    /\ phase = "loading"
    /\ IF ConfigMissing
       THEN /\ phase' = "blocked"
            /\ last' = Step("load", "blocked", "alert")
            /\ UNCHANGED <<client, handlers, calls>>
       ELSE /\ phase' = "ready"
            /\ client' = TRUE
            /\ handlers' = TRUE
            /\ calls' = IF page = "storefront" THEN calls
                        ELSE Append(calls, CheckAuthCall)
            /\ last' = Step("load", "ready", "")
    /\ UNCHANGED <<page, config, loginScreen, dashboard, session, currentUser,
                   dbProducts, orders, events, storeVars, viewVars>>

\* ================================================== standalone admin pages
\* a user event on a standalone admin page invokes a handler
AdminInvoke ==
    /\ page # "storefront"
    /\ handlers
    /\ events < MaxEvents
    /\ events' = events + 1
    /\ UNCHANGED <<bootVars, storeVars>>

\* a backend response resumes the handler of call i suspended at pc
AdminResumed(i, fn, pc) ==
    /\ page # "storefront"
    /\ i \in 1..Len(calls)
    /\ calls[i].fn = fn
    /\ calls[i].pc = pc
    /\ UNCHANGED <<events, bootVars, storeVars>>

\* showLoginScreen(): login screen displayed, sidebar and main content hidden
ShowLoginScreen ==
    /\ loginScreen' = TRUE
    /\ dashboard' = FALSE

\* loadDashboardData() up to its await of Promise.all
DashboardDataCall ==
    [BlankCall EXCEPT !.fn = "loadDashboardData", !.pc = "load",
                      !.via = "loadDashboardData"]

\* showDashboard() (admin.js) and the same statements inlined in part_001:
\* login screen hidden, sidebar and main content displayed, and
\* loadDashboardData() started in place of the finished call i
ShowDashboard(i) ==
    /\ loginScreen' = FALSE
    /\ dashboard' = TRUE
    /\ calls' = Append(RemoveAt(calls, i), DashboardDataCall)

\* checkAuth resumed by getSession: an error (returned in admin.js, thrown
\* and caught in part_001) and a missing session show the login screen
AdminCheckAuthSession(i, out) ==
    /\ AdminResumed(i, "checkAuth", "getSession")
    /\ IF Failed(out) \/ session = None
       THEN /\ ShowLoginScreen
            /\ calls' = RemoveAt(calls, i)
            /\ last' = Step("checkAuth", "login", "")
            /\ UNCHANGED currentUser
       ELSE /\ currentUser' = session
            /\ calls' = [calls EXCEPT ![i] =
                  [@ EXCEPT !.pc = "role", !.user = session]]
            /\ last' = Step("checkAuth", "session", "")
            /\ UNCHANGED <<loginScreen, dashboard>>
    /\ UNCHANGED <<session, dbProducts, orders>>

\* checkAuth resumed by the role lookup
AdminCheckAuthRole(i, out) ==
    /\ AdminResumed(i, "checkAuth", "role")
    /\ IF Authorized(out, calls[i].user)
       THEN /\ ShowDashboard(i)
            /\ last' = Step("checkAuth", "dashboard", "")
       ELSE /\ calls' = [calls EXCEPT ![i] = [@ EXCEPT !.pc = "signOut"]]
            /\ last' = Step("checkAuth", "denied", "error")
            /\ UNCHANGED <<loginScreen, dashboard>>
    /\ UNCHANGED <<currentUser, session, dbProducts, orders>>

\* auth.signOut() resolved: the session is gone unless it returned an error,
\* which no caller on the admin pages reads
SignedOut(out) == IF Failed(out) THEN session ELSE None

\* checkAuth resumed by the signOut of a rejected identity
AdminCheckAuthSignedOut(i, out) ==
    /\ AdminResumed(i, "checkAuth", "signOut")
    /\ session' = SignedOut(out)
    /\ ShowLoginScreen
    /\ calls' = RemoveAt(calls, i)
    /\ last' = Step("checkAuth", "login", "")
    /\ UNCHANGED <<currentUser, dbProducts, orders>>

\* #login-btn is disabled from the submission of the login form to the end
\* of its handler
LoginBtnDisabled ==
    \E k \in 1..Len(calls) : calls[k].fn = "handleAdminLogin"

\* the login form of the login screen is submitted
AdminHandleLogin ==
    /\ AdminInvoke
    /\ loginScreen
    /\ ~LoginBtnDisabled
    /\ CanSuspend
    /\ calls' = Append(calls,
          [BlankCall EXCEPT !.fn = "handleAdminLogin", !.pc = "signIn",
                            !.via = "handleAdminLogin"])
    /\ last' = Step("handleAdminLogin", "sent", "")
    /\ UNCHANGED <<loginScreen, dashboard, session, currentUser, dbProducts,
                   orders>>

\* the admin login resumed by signInWithPassword: who = None is an error
AdminHandleLoginSignedIn(i, who) ==
    /\ AdminResumed(i, "handleAdminLogin", "signIn")
    /\ IF who = None
       THEN /\ calls' = RemoveAt(calls, i)
            /\ last' = Step("handleAdminLogin", "error", "error")
            /\ UNCHANGED <<currentUser, session>>
       ELSE /\ currentUser' = who
            /\ session' = who
            /\ calls' = [calls EXCEPT ![i] =
                  [@ EXCEPT !.pc = "role", !.user = who]]
            /\ last' = Step("handleAdminLogin", "signedIn", "")
    /\ UNCHANGED <<loginScreen, dashboard, dbProducts, orders>>

\* the admin login resumed by the role lookup
AdminHandleLoginRole(i, out) ==
    /\ AdminResumed(i, "handleAdminLogin", "role")
    /\ IF Authorized(out, calls[i].user)
       THEN /\ ShowDashboard(i)
            /\ last' = Step("handleAdminLogin", "dashboard", "success")
       ELSE /\ calls' = [calls EXCEPT ![i] = [@ EXCEPT !.pc = "signOut"]]
            /\ last' = Step("handleAdminLogin", "denied", "")
            /\ UNCHANGED <<loginScreen, dashboard>>
    /\ UNCHANGED <<currentUser, session, dbProducts, orders>>

\* the admin login resumed by the signOut of a rejected identity; it throws
\* 'Not authorized as admin', shown in #login-error
AdminHandleLoginSignedOut(i, out) ==
    /\ AdminResumed(i, "handleAdminLogin", "signOut")
    /\ session' = SignedOut(out)
    /\ calls' = RemoveAt(calls, i)
    /\ last' = Step("handleAdminLogin", "rejected", "error")
    /\ UNCHANGED <<loginScreen, dashboard, currentUser, dbProducts, orders>>

\* #logout-btn of the dashboard's sidebar
AdminHandleLogout ==
    /\ AdminInvoke
    /\ dashboard
    /\ CanSuspend
    /\ calls' = Append(calls,
          [BlankCall EXCEPT !.fn = "adminLogout", !.pc = "signOut",
                            !.via = "adminLogout"])
    /\ last' = Step("adminLogout", "sent", "")
    /\ UNCHANGED <<loginScreen, dashboard, session, currentUser, dbProducts,
                   orders>>

\* the admin pages' handleLogout resumed by signOut
AdminHandleLogoutSignedOut(i, out) ==
    /\ AdminResumed(i, "adminLogout", "signOut")
    /\ session' = SignedOut(out)
    /\ currentUser' = None
    /\ ShowLoginScreen
    /\ calls' = RemoveAt(calls, i)
    /\ last' = Step("adminLogout", "loggedOut", "success")
    /\ UNCHANGED <<dbProducts, orders>>

\* loadDashboardData resumed by its three loads, which render the tables
DashboardDataLoaded(i) ==
    /\ AdminResumed(i, "loadDashboardData", "load")
    /\ calls' = RemoveAt(calls, i)
    /\ last' = Step("loadDashboardData", "rendered", "")
    /\ UNCHANGED <<loginScreen, dashboard, session, currentUser, dbProducts,
                   orders>>

\* the product form of a standalone admin page is submitted (saveProduct),
\* for an existing product (p, the product-id field) or a new one (None)
SaveProduct(p, price) ==
    /\ AdminInvoke
    /\ dashboard
    /\ CanSuspend
    /\ calls' = Append(calls,
          [BlankCall EXCEPT !.fn = "saveProduct", !.pc = SaveRoute(p),
                            !.via = "saveProduct", !.pid = p,
                            !.price = price])
    /\ last' = Step("saveProduct", "sent", "")
    /\ UNCHANGED <<loginScreen, dashboard, session, currentUser, dbProducts,
                   orders>>

\* saveProduct resumed by its update or insert; the reload of the product
\* table it starts only renders
SaveProductSaved(i, out) ==
    /\ page # "storefront"
    /\ i \in 1..Len(calls)
    /\ calls[i].fn = "saveProduct"
    /\ UNCHANGED <<events, bootVars, storeVars>>
    /\ calls' = RemoveAt(calls, i)
    /\ IF Failed(out)
       THEN /\ last' = Step("saveProduct", "error", "error")
            /\ UNCHANGED dbProducts
       ELSE /\ dbProducts' = ProductsAfterWrite(calls[i])
            /\ last' = Step("saveProduct",
                            IF calls[i].pc = "update" THEN "updated"
                            ELSE "created", "success")
    /\ UNCHANGED <<loginScreen, dashboard, session, currentUser, orders>>

\* window.deleteProduct of a standalone admin page, up to the await of its
\* delete; answer is what the user answers to confirm()
AdminDeleteProduct(p, answer) ==
    /\ AdminInvoke
    /\ dashboard
    /\ p \in DOMAIN dbProducts
    /\ IF DeleteProceeds(answer)
       THEN /\ CanSuspend
            /\ calls' = Append(calls,
                  [BlankCall EXCEPT !.fn = "adminDeleteProduct",
                      !.pc = "delete", !.via = "adminDeleteProduct",
                      !.pid = p])
            /\ last' = Step("adminDeleteProduct", "sent", "")
       ELSE /\ last' = Step("adminDeleteProduct", "declined", "")
            /\ UNCHANGED calls
    /\ UNCHANGED <<loginScreen, dashboard, session, currentUser, dbProducts,
                   orders>>

\* window.deleteProduct resumed by its delete; the reload of the product
\* table it starts only renders
AdminDeleteProductDeleted(i, out) ==
    /\ AdminResumed(i, "adminDeleteProduct", "delete")
    /\ calls' = RemoveAt(calls, i)
    /\ IF Failed(out)
       THEN /\ last' = Step("adminDeleteProduct", "error", "error")
            /\ UNCHANGED dbProducts
       ELSE /\ dbProducts' = ProductsAfterDelete(calls[i].pid)
            /\ last' = Step("adminDeleteProduct", "deleted", "success")
    /\ UNCHANGED <<loginScreen, dashboard, session, currentUser, orders>>

\* ------------------------------------------- product administration model
\* an order placed earlier by a customer, as processCheckout stores it
PlacedOrder ==
    LET c == <<Line(1, "A", 1, 2, "M")>> IN
    [id |-> 1, user |-> "u2", items |-> OrderItems(c),
     total |-> CartTotal(c), status |-> "pending"]

ViewOrderLine_Live(item) ==
    [item EXCEPT !.price = IF item.pid \in DOMAIN dbProducts
                           THEN dbProducts[item.pid] ELSE 0]

\* viewOrder lists each line from the order's own items: i.name, i.size,
\* i.quantity, i.price
ViewOrderLine(item) == item

\* what viewOrder shows of order o: its lines and its total
ViewOrder(o) ==
    [items |-> [k \in DOMAIN o.items |-> ViewOrderLine(o.items[k])],
     total |-> o.total]

OrdersShown == [k \in DOMAIN orders |-> ViewOrder(orders[k])]

\* A page is opened: one of the three scripts is about to run, with or
\* without credentials, with or without a stored session (standalone admin
\* pages), on a backend that may hold an order.  The standalone pages start
\* with neither the login screen nor the dashboard displayed.
InitAdmin ==
    /\ page \in Pages
    /\ phase = "loading"
    /\ config \in Configs
    /\ client = FALSE
    /\ handlers = FALSE
    /\ loginScreen = FALSE
    /\ dashboard = FALSE
    /\ session \in IF page = "storefront" THEN {None} ELSE Users \cup {None}
    /\ orders \in {<<>>, <<PlacedOrder>>}
    /\ currentUser = None
    /\ cart = <<>>
    /\ localCart = NoItem
    /\ dbProducts = [p \in Products |-> 1]
    /\ products = [p \in Products |-> 1]
    /\ adminBtn = FALSE
    /\ redirect = NoRedirect
    /\ cartItems = {}
    /\ nextId = 1
    /\ calls = <<>>
    /\ events = 0
    /\ last = Step("init", "", "")
    /\ revenueOrders = <<>>
    /\ revenue = RevenueIdle
    /\ catalog = {}
    /\ allProducts = <<>>
    /\ grid = <<>>
    /\ loads = <<>>
    /\ form = NoFilters
    /\ timer = 0
    /\ samples = 0

\* session and product administration of the three scripts
NextAdmin ==
    \/ LoadScript
    \/ HandleLogin
    \/ \E i \in Slots, who \in Users \cup {None} : HandleLoginSignedIn(i, who)
    \/ \E i \in Slots, out \in Outcomes : HandleLoginCartLoaded(i, out)
    \/ \E i \in Slots, out \in Outcomes : HandleLoginRoleChecked(i, out)
    \/ HandleLogout
    \/ \E i \in Slots, out \in Outcomes : HandleLogoutSignedOut(i, out)
    \/ ToggleAdminDashboard
    \/ \E p \in EditableProducts \cup {None}, price \in Prices,
          image \in Images : SaveAdminProduct(p, price, image)
    \/ \E i \in Slots, out \in Outcomes : ProductFormUploaded(i, out)
    \/ \E i \in Slots, out \in Outcomes : SaveAdminProductUpdated(i, out)
    \/ \E i \in Slots, out \in Outcomes : SaveAdminProductReloaded(i, out)
    \/ \E p \in EditableProducts, answer \in BOOLEAN : DeleteProduct(p, answer)
    \/ \E i \in Slots, out \in Outcomes : DeleteProductDeleted(i, out)
    \/ \E i \in Slots, out \in Outcomes : DeleteProductReloaded(i, out)
    \/ \E i \in Slots, out \in Outcomes : AdminCheckAuthSession(i, out)
    \/ \E i \in Slots, out \in Outcomes : AdminCheckAuthRole(i, out)
    \/ \E i \in Slots, out \in Outcomes : AdminCheckAuthSignedOut(i, out)
    \/ AdminHandleLogin
    \/ \E i \in Slots, who \in Users \cup {None} :
          AdminHandleLoginSignedIn(i, who)
    \/ \E i \in Slots, out \in Outcomes : AdminHandleLoginRole(i, out)
    \/ \E i \in Slots, out \in Outcomes : AdminHandleLoginSignedOut(i, out)
    \/ AdminHandleLogout
    \/ \E i \in Slots, out \in Outcomes : AdminHandleLogoutSignedOut(i, out)
    \/ \E i \in Slots : DashboardDataLoaded(i)
    \/ \E p \in EditableProducts \cup {None}, price \in Prices :
          SaveProduct(p, price)
    \/ \E i \in Slots, out \in Outcomes : SaveProductSaved(i, out)
    \/ \E p \in EditableProducts, answer \in BOOLEAN :
          AdminDeleteProduct(p, answer)
    \/ \E i \in Slots, out \in Outcomes : AdminDeleteProductDeleted(i, out)

SpecAdmin == InitAdmin /\ [][NextAdmin]_vars

\* ======================================================= analytics module
\* everything but the analytics module's own state and the last step
shopVars ==
    <<currentUser, cart, localCart, products, adminBtn, redirect, cartItems,
      nextId, dbProducts, orders, calls, dashboard, session, page, phase,
      config, client, handlers, loginScreen>>

siteVars == <<shopVars, events>>

\* order totals, in currency units
Amounts == {3, 5, 100, 150}

\* created_at of an order relative to now: before the previous month, in
\* the previous month up to 00:00 of its last day, later on that last day,
\* or in the current month
Instants == {"older", "lastMonth", "lastDay", "thisMonth"}

OrderRows == [total : Amounts, paid : BOOLEAN, at : Instants]

\* .gte('created_at', startOfMonth)
CurrentWindow == {"thisMonth"}

\* .gte('created_at', startOfLastMonth).lte('created_at', endOfLastMonth),
\* endOfLastMonth = new Date(year, month, 0): 00:00 of the last day
LastWindow == {"lastMonth"}

\* select('total').eq('payment_status', 'paid') within a window
PaidTotals(rows, window) ==
    LET Selected(r) == r.paid /\ r.at \in window
        sel == SelectSeq(rows, Selected)
    IN [k \in 1..Len(sel) |-> sel[k].total]

\* data?.reduce((sum, order) => sum + parseFloat(order.total), 0) || 0
RevenueOf(data) == SumSeq(data)

RoundDiv_Truncated(n, d) ==
    IF n >= 0 THEN n \div d ELSE -((-n) \div d)

\* n / d rounded to the nearest integer, halves away from zero (d > 0)
RoundDiv(n, d) ==
    IF n >= 0 THEN (2 * n + d) \div (2 * d)
    ELSE -((2 * (-n) + d) \div (2 * d))

\* lastRevenue > 0 ? ((currentRevenue - lastRevenue) / lastRevenue * 100)
\*    .toFixed(1) : 0, then parseFloat: a number with one decimal, kept here
\* in tenths of a percent
PercentChange(currentRevenue, lastRevenue) ==
    IF lastRevenue > 0
    THEN RoundDiv((currentRevenue - lastRevenue) * 1000, lastRevenue)
    ELSE 0

RevenueZero == [total |-> 0, lastMonth |-> 0, change |-> 0]

\* calculateRevenue up to its first await; without a client it returns zeros
CalculateRevenue ==
    /\ revenue.pc = "idle"
    /\ IF ConfigMissing
       THEN /\ revenue' = [revenue EXCEPT !.pc = "done", !.result = RevenueZero]
            /\ last' = Step("calculateRevenue", "noClient", "")
       ELSE /\ revenue' = [revenue EXCEPT !.pc = "current"]
            /\ last' = Step("calculateRevenue", "sent", "")
    /\ UNCHANGED <<siteVars, revenueOrders, catalogVars>>

\* calculateRevenue resumed by the current month's query
RevenueCurrentLoaded(out) ==
    /\ revenue.pc = "current"
    /\ IF Failed(out)
       THEN /\ revenue' = [revenue EXCEPT !.pc = "done", !.result = RevenueZero]
            /\ last' = Step("calculateRevenue", "error", "")
       ELSE /\ revenue' = [revenue EXCEPT !.pc = "last",
                  !.current = PaidTotals(revenueOrders, CurrentWindow)]
            /\ last' = Step("calculateRevenue", "current", "")
    /\ UNCHANGED <<siteVars, revenueOrders, catalogVars>>

\* calculateRevenue resumed by the previous month's query, to its return
RevenueLastLoaded(out) ==
    /\ revenue.pc = "last"
    /\ IF Failed(out)
       THEN /\ revenue' = [revenue EXCEPT !.pc = "done", !.result = RevenueZero]
            /\ last' = Step("calculateRevenue", "error", "")
       ELSE LET currentRevenue == RevenueOf(revenue.current)
                lastRevenue ==
                    RevenueOf(PaidTotals(revenueOrders, LastWindow))
            IN /\ revenue' = [revenue EXCEPT !.pc = "done",
                     !.result = [total |-> currentRevenue,
                                 lastMonth |-> lastRevenue,
                                 change |-> PercentChange(currentRevenue,
                                                          lastRevenue)]]
               /\ last' = Step("calculateRevenue", "computed", "")
    /\ UNCHANGED <<siteVars, revenueOrders, catalogVars>>

\* the dashboard's analytics are loaded on a page with some orders
InitRevenue ==
    /\ revenueOrders \in UNION {[1..n -> OrderRows] : n \in 0..MaxOrders}
    /\ revenue = RevenueIdle
    /\ catalog = {}
    /\ allProducts = <<>>
    /\ grid = <<>>
    /\ loads = <<>>
    /\ form = NoFilters
    /\ timer = 0
    /\ samples = 0
    /\ config \in Configs
    /\ page = "admin.js"
    /\ phase = "ready"
    /\ client = ~ConfigMissing
    /\ handlers = ~ConfigMissing
    /\ loginScreen = FALSE
    /\ dashboard = ~ConfigMissing
    /\ session = None
    /\ orders = <<>>
    /\ currentUser = None
    /\ cart = <<>>
    /\ localCart = NoItem
    /\ dbProducts = [p \in Products |-> 1]
    /\ products = [p \in Products |-> 1]
    /\ adminBtn = FALSE
    /\ redirect = NoRedirect
    /\ cartItems = {}
    /\ nextId = 1
    /\ calls = <<>>
    /\ events = 0
    /\ last = Step("init", "", "")

NextRevenue ==
    \/ CalculateRevenue
    \/ \E out \in Outcomes : RevenueCurrentLoaded(out)
    \/ \E out \in Outcomes : RevenueLastLoaded(out)

SpecRevenue == InitRevenue /\ [][NextRevenue]_vars

\* =========================================================== catalog view
\* product names and search inputs are sequences of characters
Lower(ch) == IF ch = "A" THEN "a" ELSE IF ch = "B" THEN "b" ELSE ch

\* SQL LIKE, case-insensitive: % matches any run of characters, _ any one
RECURSIVE Like(_, _)
Like(pattern, str) ==
    IF pattern = <<>> THEN str = <<>>
    ELSE IF Head(pattern) = "%"
    THEN \/ Like(Tail(pattern), str)
         \/ str # <<>> /\ Like(pattern, Tail(str))
    ELSE /\ str # <<>>
         /\ Head(pattern) = "_" \/ Lower(Head(pattern)) = Lower(Head(str))
         /\ Like(Tail(pattern), Tail(str))

\* query.ilike('name', `%${filters.search}%`)
Ilike(name, search) == Like(<<"%">> \o search \o <<"%">>, name)

\* rows the products table may hold; hasSizes is FALSE for a row whose sizes
\* column is null
ProductPool ==
    { [id |-> "A", name |-> <<"a", "b">>, category |-> "tops",
       hasSizes |-> TRUE, sizes |-> {"M", "L"}, price |-> 1,
       featured |-> TRUE, created |-> 1],
      [id |-> "B", name |-> <<"A">>, category |-> "tops",
       hasSizes |-> TRUE, sizes |-> {"L"}, price |-> 2,
       featured |-> FALSE, created |-> 2],
      [id |-> "C", name |-> <<"b", "a">>, category |-> "pants",
       hasSizes |-> FALSE, sizes |-> {}, price |-> 1,
       featured |-> FALSE, created |-> 3] }

\* the values of #search-input, #category-filter, #size-filter, #sort-filter
Filters ==
    [search : {<<>>, <<"a">>, <<"_", "B">>},
     category : {"", "tops"},
     size : {"", "M"},
     sort : {"", "price-low", "price-high", "popular"}]

\* if (filters.category) query.eq(...); if (filters.search) query.ilike(...)
Fetched(f) ==
    {r \in catalog :
        /\ f.category # "" => r.category = f.category
        /\ f.search # <<>> => Ilike(r.name, f.search)}

\* row a may come before row b under query.order(...) of filters.sort
InOrder(f, a, b) ==
    IF f.sort = "price-low" THEN a.price <= b.price
    ELSE IF f.sort = "price-high" THEN a.price >= b.price
    ELSE IF f.sort = "popular" THEN a.featured \/ ~b.featured
    ELSE a.created >= b.created

\* the results the query may return: the fetched rows in sorted order, rows
\* with equal keys in any order
SortedFetches(f) ==
    LET rows == Fetched(f)
        n == Cardinality(rows)
    IN {s \in [1..n -> rows] :
           /\ \A i, j \in 1..n : i # j => s[i] # s[j]
           /\ \A i, j \in 1..n : i < j => InOrder(f, s[i], s[j])}

\* if (filters.size) allProducts.filter(product =>
\*     product.sizes && product.sizes.includes(filters.size))
KeepsRow(f, r) ==
    f.size # "" => (r.hasSizes /\ f.size \in r.sizes)

\* products = the rows of the fetch that pass the size filter, in its order
SizeFiltered(f, data) ==
    LET Keeps(r) == KeepsRow(f, r) IN SelectSeq(data, Keeps)

\* the controls are set to f and the debounced applyFilters runs:
\* loadProducts(filters) up to its await
ApplyFilters(f) ==
    /\ handlers
    /\ page = "storefront"
    /\ events < MaxLoads
    /\ events' = events + 1
    /\ loads' = Append(loads, f)
    /\ form' = f
    /\ timer' = 0
    /\ last' = Step("loadProducts", "sent", "")
    /\ UNCHANGED <<shopVars, revenueVars, samples, catalog, allProducts, grid>>

DiscardsResponse_Superseded(i) == i < Len(loads)

\* loadProducts keeps no token of the request issued last: the result of
\* every query that returns is assigned and displayed
DiscardsResponse(i) == FALSE

\* loadProducts resumed by its query returning data, to its end
LoadProductsLoaded(i, data) ==
    /\ i \in 1..Len(loads)
    /\ data \in SortedFetches(loads[i])
    /\ loads' = RemoveAt(loads, i)
    /\ IF DiscardsResponse(i)
       THEN /\ UNCHANGED <<allProducts, grid>>
            /\ last' = Step("loadProducts", "discarded", "")
       ELSE /\ allProducts' = data
            /\ grid' = SizeFiltered(loads[i], data)
            /\ last' = Step("loadProducts", "displayed", "")
    /\ UNCHANGED <<siteVars, revenueVars, samples, catalog, form, timer>>

\* loadProducts resumed by its query returning an error: nothing is shown anew
LoadProductsFailed(i) ==
    /\ i \in 1..Len(loads)
    /\ loads' = RemoveAt(loads, i)
    /\ last' = Step("loadProducts", "error", "error")
    /\ UNCHANGED <<siteVars, revenueVars, samples, catalog, allProducts, grid, form,
                   timer>>

\* the storefront is open on some products table
InitCatalog ==
    /\ catalog \in SUBSET ProductPool
    /\ allProducts = <<>>
    /\ grid = <<>>
    /\ loads = <<>>
    /\ form = NoFilters
    /\ timer = 0
    /\ samples = 0
    /\ revenueOrders = <<>>
    /\ revenue = RevenueIdle
    /\ currentUser = None
    /\ cart = <<>>
    /\ localCart = NoItem
    /\ dbProducts = [p \in Products |-> 1]
    /\ products = [p \in Products |-> 1]
    /\ adminBtn = FALSE
    /\ redirect = NoRedirect
    /\ cartItems = {}
    /\ nextId = 1
    /\ orders = <<>>
    /\ calls = <<>>
    /\ events = 0
    /\ last = Step("init", "", "")
    /\ dashboard = FALSE
    /\ session = None
    /\ page = "storefront"
    /\ phase = "ready"
    /\ config = [url |-> TRUE, anonKey |-> TRUE]
    /\ client = TRUE
    /\ handlers = TRUE
    /\ loginScreen = FALSE

NextCatalog ==
    \/ \E f \in Filters : ApplyFilters(f)
    \/ \E i \in 1..MaxLoads :
          \E data \in UNION {[1..n -> ProductPool] : n \in 0..3} :
             LoadProductsLoaded(i, data)
    \/ \E i \in 1..MaxLoads : LoadProductsFailed(i)

SpecCatalog == InitCatalog /\ [][NextCatalog]_vars

\* ----------------------------------------------- debounced filter events
\* the values a filter control can take
FilterValues(control) == {f[control] : f \in Filters}

FilterControls == {"search", "category", "size", "sort"}

Scheduled_NotCleared(pending) == pending + 1

\* executedFunction of debounce: clearTimeout(timeout), then
\* timeout = setTimeout(later, wait): the timeouts pending afterwards
Scheduled(pending) == 1

\* an input or change event of a filter control: the control takes a new
\* value and the debounced applyFilters is called
FilterEvent(control, value) ==
    /\ handlers
    /\ page = "storefront"
    /\ events < MaxEvents
    /\ events' = events + 1
    /\ value \in FilterValues(control)
    /\ value # form[control]
    /\ form' = [form EXCEPT ![control] = value]
    /\ timer' = Scheduled(timer)
    /\ last' = Step("applyFilters", "scheduled", "")
    /\ UNCHANGED <<shopVars, revenueVars, samples, catalog, allProducts, grid, loads>>

\* a pending timeout expires, no event having arrived for the delay: later()
\* calls loadProducts with the values the controls hold, up to its await
DebounceFires ==
    /\ timer > 0
    /\ Len(loads) < MaxLoads
    /\ timer' = timer - 1
    /\ loads' = Append(loads, form)
    /\ last' = Step("loadProducts", "sent", "")
    /\ UNCHANGED <<siteVars, revenueVars, samples, catalog, allProducts, grid, form>>

NextDebounce ==
    \/ \E control \in FilterControls :
          \E value \in FilterValues(control) : FilterEvent(control, value)
    \/ DebounceFires
    \/ \E i \in 1..MaxLoads :
          \E data \in UNION {[1..n -> ProductPool] : n \in 0..3} :
             LoadProductsLoaded(i, data)
    \/ \E i \in 1..MaxLoads : LoadProductsFailed(i)

\* the storefront is open on a products table of at most one row
InitDebounce ==
    /\ InitCatalog
    /\ Cardinality(catalog) <= 1

SpecDebounce == InitDebounce /\ [][NextDebounce]_vars

\* the query of a suspended loadProducts returns, with data or an error
LoadProductsReturns ==
    \/ \E i \in 1..MaxLoads :
          \E data \in UNION {[1..n -> ProductPool] : n \in 0..3} :
             LoadProductsLoaded(i, data)
    \/ \E i \in 1..MaxLoads : LoadProductsFailed(i)

\* a timeout that is not cleared expires, and a query sent gets an answer
SpecDebounceLive ==
    /\ InitDebounce
    /\ [][NextDebounce]_vars
    /\ WF_vars(DebounceFires)
    /\ WF_vars(LoadProductsReturns)

\* ------------------------------------------- storefront database seeding
\* what the start of the DOMContentLoaded listener leaves alone
seedFrame ==
    <<currentUser, cart, localCart, products, adminBtn, redirect, cartItems,
      nextId, dbProducts, orders, calls, dashboard, session, page, config,
      client, loginScreen, revenueVars, catalog, allProducts, grid, loads,
      form, timer>>

\* the length of the sampleProducts array of seedDatabase
SampleProducts == 8

\* rows of table products: those of the catalog and the inserted samples
TableRows == Cardinality(catalog) + samples * SampleProducts

\* how the query select('count') on products may end: an array with one
\* element per row, an array holding the one aggregate row, a result with
\* an error (data is null), or a rejected await
ExistenceOutcomes == {"rows", "aggregate", "error", "throw"}

\* existingProducts.length of the data returned without error
ExistingLength(out) == IF out = "aggregate" THEN 1 ELSE TableRows

\* initializeDatabase calls seedDatabase: in its try block when
\* !existingProducts || existingProducts.length === 0 (the error of the
\* result is not read), and in its catch block
CallsSeedDatabase(out) ==
    \/ out = "throw"
    \/ out = "error"
    \/ ExistingLength(out) = 0

\* the DOMContentLoaded listener starts: initializeDatabase up to its await
InitializeDatabase ==
    /\ page = "storefront"
    /\ phase = "loading"
    /\ phase' = "count"
    /\ last' = Step("initializeDatabase", "sent", "")
    /\ UNCHANGED <<seedFrame, handlers, samples, events>>

\* initializeDatabase resumed by its existence query: seedDatabase up to
\* its await, or the listener's remaining steps, after which the handlers
\* are registered
InitializeDatabaseCounted(out) ==
    /\ phase = "count"
    /\ IF CallsSeedDatabase(out)
       THEN /\ phase' = "seed"
            /\ last' = Step("initializeDatabase", "seeding", "")
            /\ UNCHANGED handlers
       ELSE /\ phase' = "ready"
            /\ handlers' = TRUE
            /\ last' = Step("initializeDatabase", "kept", "")
    /\ UNCHANGED <<seedFrame, samples, events>>

\* seedDatabase resumed by its insert of the sample products, whose error is
\* logged; then the listener's remaining steps
SeedDatabaseInserted(out) ==
    /\ phase = "seed"
    /\ samples' = IF Failed(out) THEN samples ELSE samples + 1
    /\ phase' = "ready"
    /\ handlers' = TRUE
    /\ last' = Step("seedDatabase",
                   IF Failed(out) THEN "error" ELSE "seeded", "")
    /\ UNCHANGED <<seedFrame, events>>

\* the page is loaded again
Reload ==
    /\ phase = "ready"
    /\ events < MaxEvents
    /\ events' = events + 1
    /\ phase' = "loading"
    /\ handlers' = FALSE
    /\ last' = Step("load", "reload", "")
    /\ UNCHANGED <<seedFrame, samples>>

\* the storefront script has run and its DOMContentLoaded listener is about
\* to start, on some products table
InitSeed ==
    /\ catalog \in SUBSET ProductPool
    /\ samples = 0
    /\ allProducts = <<>>
    /\ grid = <<>>
    /\ loads = <<>>
    /\ form = NoFilters
    /\ timer = 0
    /\ revenueOrders = <<>>
    /\ revenue = RevenueIdle
    /\ currentUser = None
    /\ cart = <<>>
    /\ localCart = NoItem
    /\ dbProducts = [p \in Products |-> 1]
    /\ products = [p \in Products |-> 1]
    /\ adminBtn = FALSE
    /\ redirect = NoRedirect
    /\ cartItems = {}
    /\ nextId = 1
    /\ orders = <<>>
    /\ calls = <<>>
    /\ events = 0
    /\ last = Step("init", "", "")
    /\ dashboard = FALSE
    /\ session = None
    /\ page = "storefront"
    /\ phase = "loading"
    /\ config = [url |-> TRUE, anonKey |-> TRUE]
    /\ client = TRUE
    /\ handlers = FALSE
    /\ loginScreen = FALSE

NextSeed ==
    \/ InitializeDatabase
    \/ \E out \in ExistenceOutcomes : InitializeDatabaseCounted(out)
    \/ \E out \in Outcomes : SeedDatabaseInserted(out)
    \/ Reload

SpecSeed == InitSeed /\ [][NextSeed]_vars

\* ================================================================ claims
\* number of lines of the pair, and their summed quantity
PairLines(c, p, s) == {k \in 1..Len(c) : c[k].pid = p /\ c[k].size = s}
PairQty(c, p, s) ==
    SumSeq([k \in 1..Len(c) |->
              IF c[k].pid = p /\ c[k].size = s THEN c[k].qty ELSE 0])

\* this step completes a successful addToCart(p, s, q)
AddCompleted(p, s, q) ==
    \/ currentUser = None /\ AddToCart(p, s, q)
    \/ \E i \in 1..Len(calls) :
          /\ calls[i].fn = "addToCart"
          /\ calls[i].pid = p /\ calls[i].size = s /\ calls[i].add = q
          /\ AddToCartResume(i, "ok")

\* C1: handlers invoked one after the other, anonymous or authenticated: a
\* successful addToCart(p, s, q) on a cart with no line of (p, s) leaves
\* exactly one such line, of quantity q; on a cart with one line of (p, s) it
\* leaves exactly that one line with its quantity raised by q.  So after any
\* sequence of adds of one pair the cart has one line of the pair whose
\* quantity is the sum of the quantities added.
C1_AddAccumulates ==
    [][\A o \in SizeOptions, q \in Quantities :
          (AddCompleted(o[1], o[2], q)
           /\ Cardinality(PairLines(cart, o[1], o[2])) <= 1)
          => /\ Cardinality(PairLines(cart', o[1], o[2])) = 1
             /\ PairQty(cart', o[1], o[2]) = PairQty(cart, o[1], o[2]) + q]_vars

\* two adds of one pair (1 then 2) in authenticated mode gave one line of 3
C1_Witness ==
    /\ last = Step("addToCart", "updated", "success")
    /\ currentUser # None
    /\ Len(cart) = 1
    /\ cart[1].qty = 3
    /\ cart[1].id # NoId

\* C2: in every reachable state the in-memory cart has at most one line per
\* (product id, size) pair.
C2_OneLinePerPair ==
    \A i, j \in 1..Len(cart) :
        i # j => ~(cart[i].pid = cart[j].pid /\ cart[i].size = cart[j].size)

\* C3: every step of updateCartQuantity(index, q) with q < 1 on a valid
\* index is a step of removeFromCart(index): the same change of the
\* in-memory cart, of the local-storage cart and of the backend rows, and the
\* same suspended delete whose response (success or failure) is handled by
\* removeFromCart.
C3_ZeroQuantityIsRemove ==
    [][\A k \in 1..Len(cart) : \A n \in NewQuantities(k) :
          (n < 1 /\ UpdateCartQuantity(k, n))
          => RemoveFromCartBody(k, "updateCartQuantity")]_vars

\* an authenticated updateCartQuantity(index, 0) deleted the row and the line
C3_Witness ==
    /\ last = Step("updateCartQuantity", "deleted", "")
    /\ currentUser # None
    /\ cart = <<>>
    /\ cartItems = {}

\* sum of price times quantity over order items or cart lines
LineSum(s) == SumSeq([k \in 1..Len(s) |-> s[k].price * s[k].qty])

\* C4: processCheckout submits the cart lines as they are at the call, with
\* the prices captured in the lines, and the sum of price times quantity over
\* them as total; the order row stores exactly what was submitted, so every
\* order's total is the sum over its line snapshots; a product price update
\* changes no cart line and no order.
C4_TotalFromSnapshot ==
    /\ [](\A k \in 1..Len(orders) : orders[k].total = LineSum(orders[k].items))
    /\ [][(ProcessCheckout /\ Len(calls') > Len(calls))
          => LET c == calls'[Len(calls')] IN
             /\ c.total = LineSum(cart)
             /\ Len(c.items) = Len(cart)
             /\ \A k \in 1..Len(cart) :
                   /\ c.items[k].pid = cart[k].pid
                   /\ c.items[k].size = cart[k].size
                   /\ c.items[k].qty = cart[k].qty
                   /\ c.items[k].price = cart[k].price]_vars
    /\ [][\A i \in 1..Len(calls) :
             ProcessCheckoutInserted(i, "ok")
             => /\ Len(orders') = Len(orders) + 1
                /\ orders'[Len(orders')].items = calls[i].items
                /\ orders'[Len(orders')].total = calls[i].total]_vars
    /\ [][dbProducts' # dbProducts => (cart' = cart /\ orders' = orders)]_vars

\* an order whose line price is no longer the product's price
C4_Witness ==
    \E k \in 1..Len(orders) : \E j \in 1..Len(orders[k].items) :
        /\ orders[k].items[j].price # dbProducts[orders[k].items[j].pid]
        /\ orders[k].total = LineSum(orders[k].items)

\* C5: when a checkout whose order row was inserted has finished, the
\* in-memory cart is empty and cart_items holds no row of the order's owner.
C5_CheckoutClearsBackend ==
    last = Step("processCheckout", "redirected", "")
    => /\ cart = <<>>
       /\ \A r \in cartItems : r.user # orders[redirect.order_id].user

\* C6: processCheckout with an empty cart or with no identity inserts no
\* order, deletes no backend cart row, leaves the in-memory and the
\* local-storage cart as they were, sends nothing, does not redirect, and
\* shows an error toast.
C6_CheckoutRejected ==
    [][(ProcessCheckout /\ (cart = <<>> \/ currentUser = None))
       => /\ UNCHANGED <<orders, cartItems, cart, localCart, redirect, calls>>
          /\ last'.toast = "error"]_vars

\* a guest with a line in the cart was asked to log in
C6_Witness ==
    /\ last = Step("processCheckout", "nologin", "error")
    /\ cart # <<>>
    /\ orders = <<>>
    /\ ~redirect.set

\* C7: addToCart, removeFromCart and updateCartQuantity leave the in-memory
\* cart alone when they send their backend call, and when that call returns
\* an error the step that handles the response leaves the in-memory cart as
\* it was and shows an error toast.
C7_FailureAborts ==
    /\ [][(last'.op \in {"addToCart", "removeFromCart", "updateCartQuantity"}
           /\ Len(calls') > Len(calls))
          => cart' = cart]_vars
    /\ [][\A i \in 1..Len(calls) :
             (\/ AddToCartResume(i, "error")
              \/ RemoveFromCartResume(i, "error")
              \/ UpdateCartQuantityResume(i, "error"))
             => (cart' = cart /\ last'.toast = "error")]_vars

\* a failed quantity update of an existing line left its quantity alone
C7_Witness ==
    /\ last = Step("addToCart", "error", "error")
    /\ Len(cart) = 1
    /\ cart[1].id # NoId
    /\ \E r \in cartItems : r.id = cart[1].id /\ r.qty = cart[1].qty

CartOps == {"addToCart", "removeFromCart", "updateCartQuantity"}
WriteSucceeded == {"updated", "inserted", "deleted"}

\* C8 as stated: while an identity is signed in, a step of addToCart,
\* removeFromCart or updateCartQuantity changes the in-memory cart only when
\* it handles the successful response of its backend write.
C8_WriteBeforeMemory ==
    [][(currentUser # None /\ last'.op \in CartOps /\ cart' # cart)
       => last'.outcome \in WriteSucceeded]_vars

\* C8 amended: while an identity is signed in, a step of addToCart,
\* removeFromCart or updateCartQuantity changes the in-memory cart only when
\* it handles the successful response of its backend write, or when it
\* removes or updates a line that carries no backend identifier (no backend
\* write is made for such a line); and the line addToCart pushes after its
\* insert carries the identifier of the row the backend stored.
C8_WriteBeforeMemoryWithId ==
    /\ [][(currentUser # None /\ last'.op \in CartOps /\ cart' # cart)
          => \/ last'.outcome \in WriteSucceeded
             \/ \E k \in 1..Len(cart) :
                   /\ cart[k].id = NoId
                   /\ \/ RemoveFromCart(k)
                      \/ \E n \in NewQuantities(k) : UpdateCartQuantity(k, n)]_vars
    /\ [][\A i \in 1..Len(calls) :
             (AddToCartResume(i, "ok") /\ calls[i].pc = "insert")
             => /\ Len(cart') = Len(cart) + 1
                /\ cart'[Len(cart')].id # NoId
                /\ \A r \in cartItems : r.id # cart'[Len(cart')].id
                /\ \E r \in cartItems' :
                      /\ r.id = cart'[Len(cart')].id
                      /\ r.pid = cart'[Len(cart')].pid
                      /\ r.size = cart'[Len(cart')].size
                      /\ r.qty = cart'[Len(cart')].qty]_vars

\* a signed-in addToCart pushed the line of the row the backend stored
C8_Witness ==
    /\ last = Step("addToCart", "inserted", "success")
    /\ currentUser # None
    /\ cart # <<>>
    /\ \E r \in cartItems : r.id = cart[Len(cart)].id /\ r.user = currentUser

LineKeys(c) ==
    {<<c[k].id, c[k].pid, c[k].size, c[k].qty>> : k \in 1..Len(c)}
RowKeys(rows) == {<<r.id, r.pid, r.size, r.qty>> : r \in rows}

\* C10: when handleLogin has finished with an identity signed in, the
\* in-memory cart holds exactly the cart_items rows of that identity.
C10_LoginReplacesCart ==
    (last = Step("handleLogin", "welcome", "success") /\ currentUser # None)
    => /\ LineKeys(cart) = RowKeys({r \in cartItems : r.user = currentUser})
       /\ Len(cart) = Cardinality({r \in cartItems : r.user = currentUser})

\* C11: the step of handleLogout that handles a successful signOut clears
\* the current identity, empties the in-memory cart, and hides the admin
\* entry control and the admin dashboard.
C11_LogoutClears ==
    [][\A i \in 1..Len(calls) :
          HandleLogoutSignedOut(i, "ok")
          => /\ currentUser' = None
             /\ cart' = <<>>
             /\ ~adminBtn'
             /\ ~dashboard']_vars

\* an admin who had lines in the cart and used the dashboard has logged out
C11_Witness ==
    /\ last = Step("handleLogout", "loggedOut", "success")
    /\ cartItems # {}
    /\ dbProducts["A"] # 1
    /\ currentUser = None
    /\ cart = <<>>
    /\ ~dashboard

\* the role lookup resuming call i returned, without error, the role 'admin'
C12_SaysAdmin(i, out) ==
    /\ out = "ok"
    /\ calls[i].user \in Users
    /\ UserRoles[calls[i].user] = "admin"

\* the loadDashboardData calls in flight
C12_DataLoads(cs) ==
    Cardinality({k \in 1..Len(cs) : cs[k].fn = "loadDashboardData"})

C13_Writes(cs) ==
    Cardinality({k \in 1..Len(cs) : cs[k].pc \in {"update", "insert"}})

\* call c is an update of row id when there is an id, an insert when not
C13_Routed(c, id) ==
    /\ c.pid = id
    /\ c.pc = IF id # None THEN "update" ELSE "insert"

\* the products table after one update of row id alone, and after one insert
C13_Updated(id, price) ==
    /\ DOMAIN dbProducts' = DOMAIN dbProducts
    /\ \A q \in DOMAIN dbProducts :
          dbProducts'[q] = IF q = id THEN price ELSE dbProducts[q]

C13_Inserted(price) ==
    \E n \in DOMAIN dbProducts' \ DOMAIN dbProducts :
       /\ DOMAIN dbProducts' = DOMAIN dbProducts \cup {n}
       /\ dbProducts'[n] = price
       /\ \A q \in DOMAIN dbProducts : dbProducts'[q] = dbProducts[q]

\* C13: saving a product routes on the identifier, in the inline admin
\* panel (saveAdminProduct) and on both standalone admin pages (saveProduct).
\* A submission that reaches the save issues exactly one write: with an id
\* it is an update of the row with that id and the table gains no row,
\* without an id it is an insert and no existing row changes.
C13_SaveRoutesOnId ==
    [][/\ \A id \in EditableProducts \cup {None}, price \in Prices :
             SaveAdminProduct(id, price, "url") \/ SaveProduct(id, price)
             => /\ Len(calls') = Len(calls) + 1
                /\ C13_Writes(calls') = C13_Writes(calls) + 1
                /\ C13_Routed(calls'[Len(calls')], id)
       /\ \A i \in 1..Len(calls) :
             ProductFormUploaded(i, "ok")
             => /\ C13_Writes(calls') = C13_Writes(calls) + 1
                /\ C13_Routed(calls'[i], calls[i].pid)
       /\ \A i \in 1..Len(calls), out \in Outcomes :
             SaveAdminProductUpdated(i, out) \/ SaveProductSaved(i, out)
             => /\ C13_Writes(calls') = C13_Writes(calls) - 1
                /\ IF out # "ok" THEN dbProducts' = dbProducts
                   ELSE IF calls[i].pid # None
                   THEN C13_Updated(calls[i].pid, calls[i].price)
                   ELSE C13_Inserted(calls[i].price)]_vars

\* on a standalone admin page product A has been updated to a new price and
\* a product without id has been inserted
C13_Witness ==
    /\ page = "part_001"
    /\ last = Step("saveProduct", "created", "success")
    /\ "A" \in DOMAIN dbProducts
    /\ dbProducts["A"] = 2
    /\ Cardinality(DOMAIN dbProducts) = Cardinality(Products) + 1

\* C14: in the product form of the inline admin panel, when an image file
\* was chosen no insert or update is issued before the upload has returned a
\* public URL: the submission only starts the upload, a failed upload ends
\* the submission without a write, and a submission with neither file nor
\* URL issues nothing.  A write is put in flight only by a submission with
\* a URL and no file, or by the successful return of the upload.
C14_UploadBeforeSave ==
    [][/\ \A id \in EditableProducts \cup {None}, price \in Prices :
             /\ (SaveAdminProduct(id, price, "file")
                   => /\ C13_Writes(calls') = C13_Writes(calls)
                      /\ dbProducts' = dbProducts)
             /\ (SaveAdminProduct(id, price, "none")
                   => calls' = calls /\ dbProducts' = dbProducts)
       /\ \A i \in 1..Len(calls) :
             ProductFormUploaded(i, "error")
             => /\ C13_Writes(calls') = C13_Writes(calls)
                /\ Len(calls') = Len(calls) - 1
                /\ dbProducts' = dbProducts
       /\ (page = "storefront" /\ C13_Writes(calls') > C13_Writes(calls)
             => \/ \E id \in EditableProducts \cup {None}, price \in Prices :
                      SaveAdminProduct(id, price, "url")
                \/ \E i \in 1..Len(calls) : ProductFormUploaded(i, "ok"))
       /\ (page = "storefront" /\ dbProducts' # dbProducts
             => \E i \in 1..Len(calls) :
                   calls[i].pc \in {"update", "insert", "delete"})]_vars

\* the upload of a chosen file has failed: the submission is over, no write
\* is in flight and the products table is as it was
C14_Witness ==
    /\ last = Step("saveAdminProduct", "uploadFailed", "error")
    /\ calls = <<>>
    /\ dbProducts = [p \in Products |-> 1]

\* the deletes of products in flight
C15_Deletes(cs) ==
    Cardinality({k \in 1..Len(cs) : cs[k].pc = "delete"})

\* C15: deleteProduct, in the inline admin panel and on the standalone
\* admin pages, issues its backend delete only after confirm() was accepted.
\* When it is declined no backend call is made and neither the products
\* table nor the displayed products change; a delete is put in flight only
\* by an accepted confirmation, for the product it was asked for, and a row
\* leaves the table only through such a delete.
C15_DeleteAfterConfirm ==
    [][/\ \A q \in EditableProducts :
             /\ (DeleteProduct(q, FALSE) \/ AdminDeleteProduct(q, FALSE)
                   => /\ calls' = calls
                      /\ dbProducts' = dbProducts
                      /\ products' = products)
             /\ (DeleteProduct(q, TRUE) \/ AdminDeleteProduct(q, TRUE)
                   => /\ C15_Deletes(calls') = C15_Deletes(calls) + 1
                      /\ calls'[Len(calls')].pid = q
                      /\ dbProducts' = dbProducts)
       /\ (C15_Deletes(calls') > C15_Deletes(calls)
             => \E q \in EditableProducts :
                   DeleteProduct(q, TRUE) \/ AdminDeleteProduct(q, TRUE))
       /\ (DOMAIN dbProducts \ DOMAIN dbProducts' # {}
             => \E i \in 1..Len(calls) :
                   /\ calls[i].pc = "delete"
                   /\ DOMAIN dbProducts \ DOMAIN dbProducts' = {calls[i].pid})
      ]_vars

\* the confirmation of a delete has been declined on the storefront's admin
\* panel: nothing is in flight and the product is still there
C15_Witness ==
    /\ last = Step("deleteProduct", "declined", "")
    /\ calls = <<>>
    /\ "A" \in DOMAIN dbProducts
    /\ dashboard

\* C17: once an order has been placed, no admin product update or delete
\* changes it: every step that changes the products table leaves the stored
\* orders, and the line snapshots and total viewOrder shows of them, as
\* they were.
C17_OrdersKeepSnapshots ==
    [][dbProducts' # dbProducts
         => orders' = orders /\ OrdersShown' = OrdersShown]_vars

\* the product of a placed order's line has been deleted; the order still
\* shows the line as it was bought
C17_Witness ==
    /\ orders = <<PlacedOrder>>
    /\ last.outcome = "deleted"
    /\ "A" \notin DOMAIN dbProducts
    /\ OrdersShown[1].items[1] = [pid |-> "A", qty |-> 2, size |-> "M",
                                  price |-> 1]
    /\ OrdersShown[1].total = 2

\* C18: in every reachable state every line of the in-memory cart has a
\* quantity of at least 1 (the product modal passes addToCart quantities of
\* at least 1): an update to a quantity below 1 removes the line instead of
\* storing the quantity.
C18_QuantitiesPositive ==
    \A k \in 1..Len(cart) : cart[k].qty \in Nat /\ cart[k].qty >= 1

\* the - button of a line of quantity 1 was clicked: the line is gone and
\* the line that remains has a positive quantity
C18_Witness ==
    /\ last.op = "updateCartQuantity"
    /\ last.outcome \in {"deleted", "removed"}
    /\ Len(cart) = 1
    /\ cart[1].qty >= 1

\* C20: when the backend url or anon key is missing, initialization is
\* blocked in the storefront script and in both admin scripts: in every
\* reachable state no client has been created, no event handler has been
\* registered, no handler has run and no backend call is or was in flight.
C20_MissingConfigBlocks ==
    (~config.url \/ ~config.anonKey)
    => /\ ~client
       /\ ~handlers
       /\ calls = <<>>
       /\ events = 0
       /\ last.op \in {"init", "load"}
       /\ phase \in {"loading", "blocked"}

\* an admin script has run with the url present and the anon key missing
C20_Witness ==
    /\ phase = "blocked"
    /\ page = "part_001"
    /\ config.url
    /\ ~config.anonKey
    /\ last = Step("load", "blocked", "alert")

\* C19 as stated: the change calculateRevenue returns equals
\* (current - previous) / previous x 100 when the previous month's revenue
\* is greater than 0, and 0 when it is 0 (change is kept in tenths of a
\* percent).
C19_ExactChange ==
    revenue.pc = "done"
    => LET r == revenue.result IN
       IF r.lastMonth > 0
       THEN r.change * r.lastMonth = (r.total - r.lastMonth) * 1000
       ELSE r.change = 0

\* C19: the change calculateRevenue returns is (current - previous) /
\* previous x 100 rounded to one decimal place when the previous month's
\* revenue it returns is greater than 0 (the returned value is within half
\* a tenth of the quotient), and 0 when that revenue is 0; current 150 and
\* previous 100 give 50.0.
C19_RoundedChange ==
    revenue.pc = "done"
    => LET r == revenue.result
           d == r.change * r.lastMonth - (r.total - r.lastMonth) * 1000
       IN IF r.lastMonth > 0
          THEN /\ 2 * d <= r.lastMonth
               /\ -(2 * d) <= r.lastMonth
               /\ (r.total = 150 /\ r.lastMonth = 100 => r.change = 500)
          ELSE r.change = 0

\* current revenue 5 against previous revenue 3 was reported as 66.7 percent
C19_Witness ==
    /\ revenue.pc = "done"
    /\ last = Step("calculateRevenue", "computed", "")
    /\ revenue.result = [total |-> 5, lastMonth |-> 3, change |-> 667]

\* name contains search as a substring, letter case ignored
C16_Contains(name, search) ==
    \E off \in 0..(Len(name) - Len(search)) :
       \A k \in 1..Len(search) : Lower(name[off + k]) = Lower(search[k])

\* row r satisfies the category match, the name search match and the size
\* match of filters f, an empty filter matching every row
C16_Satisfies(f, r) ==
    /\ f.category = "" \/ r.category = f.category
    /\ f.search = <<>> \/ C16_Contains(r.name, f.search)
    /\ f.size = "" \/ (r.hasSizes /\ f.size \in r.sizes)

\* sequence s lists, without repetition, exactly the rows of data that are
\* in set rows, in the order data has them
C16_InOrderOf(s, data, rows) ==
    /\ {s[k] : k \in DOMAIN s} = rows
    /\ Len(s) = Cardinality(rows)
    /\ \A a, b \in DOMAIN s :
          a < b => \E x, y \in DOMAIN data :
                      x < y /\ data[x] = s[a] /\ data[y] = s[b]

\* C16: for every products table and every combination of filters, the
\* products a completed catalog load shows are exactly the rows that satisfy
\* the category match, the name search match (the name contains the search
\* text, letter case ignored) and the size match, in the order the sorted
\* fetch returned them.
C16_ShownAreIntersection ==
    [][\A i \in 1..Len(loads) :
          LoadProductsLoaded(i, allProducts')
          => C16_InOrderOf(grid', allProducts',
                           {r \in catalog : C16_Satisfies(loads[i], r)})
      ]_vars

\* the same with the name search match taken as the fetch's pattern match
C16_SatisfiesPattern(f, r) ==
    /\ f.category = "" \/ r.category = f.category
    /\ f.search = <<>> \/ Ilike(r.name, f.search)
    /\ f.size = "" \/ (r.hasSizes /\ f.size \in r.sizes)

C16_ShownArePatternMatches ==
    [][\A i \in 1..Len(loads) :
          LoadProductsLoaded(i, allProducts')
          => C16_InOrderOf(grid', allProducts',
                           {r \in catalog : C16_SatisfiesPattern(loads[i], r)})
      ]_vars


\* C21: when the order insert of processCheckout returns an error, the step
\* that handles it ends the call without sending anything again, inserts no
\* order, leaves the in-memory cart, the local-storage cart and the backend
\* cart rows as they were, does not redirect, and shows an error toast.
C21_InsertFailureAbandons ==
    [][\A i \in 1..Len(calls) :
          ProcessCheckoutInserted(i, "error")
          => (/\ calls' = RemoveAt(calls, i)
              /\ orders' = orders
              /\ cart' = cart
              /\ localCart' = localCart
              /\ cartItems' = cartItems
              /\ redirect' = redirect
              /\ ~redirect'.set
              /\ last'.toast = "error")]_vars

\* a checkout of a signed-in cart whose order insert failed
C21_Witness ==
    /\ last = Step("processCheckout", "error", "error")
    /\ currentUser # None
    /\ cart # <<>>
    /\ cartItems # {}
    /\ orders = <<>>
    /\ calls = <<>>
    /\ ~redirect.set


\* C22: every step of processCheckout that handles the outcome of the
\* cart_items delete (success, returned error, or rejected await), the order
\* being inserted already, clears the in-memory cart and the local-storage
\* cart and sets the redirect to the payment page.
C22_ClearsWhateverDeleteDoes ==
    [][\A i \in 1..Len(calls) : \A out \in {"ok", "error", "throw"} :
          ProcessCheckoutCleared(i, out)
          => (/\ cart' = <<>>
              /\ localCart' = NoItem
              /\ redirect'.set
              /\ redirect'.order_id = calls[i].orderId)]_vars

\* the same for the outcomes the delete reports in its result
C22_ClearsOnReportedOutcome ==
    [][\A i \in 1..Len(calls) : \A out \in {"ok", "error"} :
          ProcessCheckoutCleared(i, out)
          => (/\ cart' = <<>>
              /\ localCart' = NoItem
              /\ redirect'.set
              /\ redirect'.order_id = calls[i].orderId)]_vars


\* C26: while an identity is signed in, after a successful backend write of
\* addToCart, removeFromCart or updateCartQuantity that leaves no call in
\* flight, on a cart whose lines all carry a backend row id and that no
\* checkout has touched, the in-memory cart lines and the cart_items rows of
\* that identity correspond one to one, with the same row id, product, size
\* and quantity.
C26_CartMirrorsBackend ==
    (/\ currentUser # None
     /\ calls = <<>>
     /\ orders = <<>>
     /\ last.op \in CartOps
     /\ last.outcome \in WriteSucceeded
     /\ \A k \in 1..Len(cart) : cart[k].id # NoId)
    => /\ LineKeys(cart) = RowKeys({r \in cartItems : r.user = currentUser})
       /\ Len(cart) = Cardinality({r \in cartItems : r.user = currentUser})


\* two overlapping addToCart calls on an existing line of quantity 1, each
\* adding 1: the line's quantity was raised twice, its backend row holds the
\* quantity written by one update
C26_LostUpdate ==
    /\ currentUser # None
    /\ calls = <<>>
    /\ orders = <<>>
    /\ last = Step("addToCart", "updated", "success")
    /\ Len(cart) = 1
    /\ cart[1].qty = 3
    /\ cartItems = {[id |-> cart[1].id, user |-> currentUser,
                     pid |-> cart[1].pid, size |-> cart[1].size, qty |-> 2]}


\* C27: while a processCheckout that has inserted its order is still in
\* flight, no step inserts a second order row for the same cart lines of the
\* same identity.
C27_OneOrderPerCart ==
    [][\A i \in 1..Len(calls) :
          (/\ ProcessCheckoutInserted(i, "ok")
           /\ \E j \in 1..Len(calls) :
                 /\ j # i
                 /\ calls[j].fn = "processCheckout"
                 /\ calls[j].pc = "clear"
                 /\ calls[j].user = calls[i].user
                 /\ calls[j].items = calls[i].items)
          => orders' = orders]_vars

\* the admin entry control is visible only while an identity is signed in
\* whose role is 'admin'
C28_AdminBtnOnlyForAdmin ==
    adminBtn => (currentUser \in Users /\ UserRoles[currentUser] = "admin")

\* C28: in the storefront the admin entry control is never visible while no
\* identity is signed in, whatever the order in which the responses of a
\* login's role lookup and of a logout arrive.
C28_NoAdminBtnSignedOut == adminBtn => currentUser # None


\* C29: in the standalone admin pages, when a login attempt or the initial
\* auth check has ended by rejecting the identity (its role lookup failed or
\* did not return 'admin'), the stored current user is cleared.
C29_RejectedClearsUser ==
    (\/ last = Step("handleAdminLogin", "rejected", "error")
     \/ last = Step("checkAuth", "login", ""))
    => currentUser = None


\* C25: the previous-month revenue calculateRevenue returns is the sum of the
\* totals of the paid orders created in the previous calendar month, its last
\* day included, so that every paid order created on or after the start of
\* the previous month is counted in the current or in the previous month.
C25_PreviousMonthComplete ==
    last = Step("calculateRevenue", "computed", "")
    => /\ revenue.result.lastMonth =
             SumSeq(PaidTotals(revenueOrders, {"lastMonth", "lastDay"}))
       /\ revenue.result.total + revenue.result.lastMonth =
             SumSeq(PaidTotals(revenueOrders,
                               {"lastMonth", "lastDay", "thisMonth"}))


\* C23: an event of a filter control issues no loadProducts call and
\* cancels none in flight, and leaves exactly one timeout pending however
\* many events came before it within the delay; a loadProducts call is
\* issued only by the expiry of that timeout, with the values the controls
\* hold after the last event, and leaves no timeout pending; a suspended
\* loadProducts call ends only by its own query returning; and a pending
\* timeout does expire.
C23_BurstIssuesOneLoad ==
    /\ [][(form' # form) => (loads' = loads /\ timer' = 1)]_vars
    /\ [][(Len(loads') > Len(loads))
          => (/\ timer = 1
              /\ timer' = 0
              /\ form' = form
              /\ loads' = Append(loads, form))]_vars
    /\ [][(Len(loads') < Len(loads))
          => (/\ last'.op = "loadProducts"
              /\ last'.outcome \in {"displayed", "error"}
              /\ \E i \in 1..Len(loads) : loads' = RemoveAt(loads, i))]_vars
    /\ (timer = 1) ~> (timer = 0)

\* two events changed two controls within the delay, and the one call issued
\* carries the values the controls hold after the second
C23_Witness ==
    /\ events = 2
    /\ timer = 0
    /\ last = Step("loadProducts", "sent", "")
    /\ loads = <<form>>
    /\ form.search # <<>>
    /\ form.size # ""
    /\ allProducts = <<>>
    /\ grid = <<>>

\* C24: the result of every loadProducts query that returns data is
\* assigned to the product cache and rendered in the grid, also when a
\* request issued after it is still in flight or has been answered already,
\* so cache and grid hold the result of the response that arrived last.
C24_LastResponseWins ==
    [][\A i \in 1..Len(loads) :
          (/\ loads' = RemoveAt(loads, i)
           /\ last'.op = "loadProducts"
           /\ last'.toast = "")
          => (/\ allProducts' \in SortedFetches(loads[i])
              /\ grid' = SizeFiltered(loads[i], allProducts'))]_vars

\* with no request in flight and no timeout pending, the grid shows what an
\* earlier request returned and not a result of the request issued last, for
\* the values the controls hold
C24_Witness ==
    /\ loads = <<>>
    /\ timer = 0
    /\ events = 2
    /\ last = Step("loadProducts", "displayed", "")
    /\ grid \notin {SizeFiltered(form, data) : data \in SortedFetches(form)}


\* C30: a step inserts sample products only when table products holds no
\* row, so the sample products are in the table at most once however often
\* the page is loaded, the existence query failing or not.
C30_SeedsOnlyEmptyTable ==
    /\ [][(samples' # samples) => (catalog = {} /\ samples = 0)]_vars
    /\ [](samples <= 1)

\* the same for page loads whose existence query returns its data
C30_SeedsOnlyObservedEmpty ==
    [][\A out \in {"rows", "aggregate"} :
          (InitializeDatabaseCounted(out) /\ phase' = "seed")
          => (catalog = {} /\ samples = 0)]_vars

====
